---- MODULE Spec2Model ----
(***************************************************************************)
(* Model of the rate-limited key vendor of functions/ai-proxy/main.py:     *)
(* the HTTP handler ai_proxy with check_rate_limits,                       *)
(* get_next_available_key, proxy_to_gemini and track_usage, running as     *)
(* concurrently handled requests over one Firestore usage collection and   *)
(* one pool of shared keys; of get_device_status and generate_device_id   *)
(* of the same file; of device_authenticator in its two sources,          *)
(* temp-functions/device-auth and temp-function-update/device-auth; and    *)
(* of the test-*.py scripts of src, which run the identity exchange and    *)
(* use the access token, one network call a step.                          *)
(*                                                                         *)
(* Time is a discrete clock.  The windows of check_rate_limits (one        *)
(* minute, one hour, one day) and the four ceilings of RATE_LIMITS (10,    *)
(* 100, 500, 1000 in the source) are scaled down, keeping their order, so  *)
(* that every ceiling can be met inside the explored horizon; all formulas *)
(* are stated in terms of the names, never of the scaled values.           *)
(***************************************************************************)
EXTENDS Integers, Sequences, FiniteSets, TLC

\* ---------------------------------------------------------------- bounds
MaxReq == 2        \* request slots handled concurrently
MaxStarted == 3    \* Spec: requests started in one behaviour
MaxTime == 2       \* Spec: last clock value
SeqMaxStarted == 6 \* SpecSeq: requests started in one behaviour
SeqMaxTime == 8    \* SpecSeq: last clock value
LifeMaxStarted == 3 \* SpecLife: requests started after the first burst
LifeMaxTime == 6   \* SpecLife: last clock value
MaxTokens == 1     \* largest totalTokenCount an upstream answer reports
NDevices == 2      \* distinct fingerprints
QuotaMaxTime == 7  \* SpecQuota: the clock value at the quota check
FaultMaxStarted == 3 \* SpecFaultOne: requests started in one behaviour
RetryMaxStarted == 2 \* SpecRetry: requests started in one behaviour
OrderMaxStarted == 2 \* SpecOrder: requests started in one behaviour
TrackMaxTime == 1  \* SpecTrack: last clock value
CheckMaxStarted == 3 \* SpecCheck: requests started in one behaviour
CheckMaxTime == 8  \* SpecCheck: last clock value
ObsMaxStarted == 1 \* SpecObserved: requests started in one behaviour
NKeys == 2         \* key ids of the pool
MinuteTicks == 2   \* timedelta(minutes=1), in clock ticks
HourTicks == 4     \* timedelta(hours=1), in clock ticks
DayTicks == 6      \* timedelta(days=1), in clock ticks
PerMinute == 2     \* RATE_LIMITS['requests_per_minute'] (10), scaled
PerHour == 3       \* RATE_LIMITS['requests_per_hour'] (100), scaled
PerDay == 4        \* RATE_LIMITS['requests_per_day'] (500), scaled
PerDevice == 5     \* RATE_LIMITS['requests_per_device'] (1000), scaled

\* ------------------------------------------------------------- constants
RATE_LIMITS ==
    [requests_per_minute |-> PerMinute,
     requests_per_hour   |-> PerHour,
     requests_per_day    |-> PerDay,
     requests_per_device |-> PerDevice]

\* the threshold written into the fallback query of get_next_available_key
FallbackQuota == 1000

\* get_next_available_key's "return None"; key ids are 1..NKeys
NoKey == 0
KeyIds == 1..NKeys

Reqs == 1..MaxReq
Devices == 1..NDevices

\* the reasons check_rate_limits returns
MsgFirst    == "First time user"
MsgLifetime == "Demo limit reached. Please upgrade to continue."
MsgMinute   == "Rate limit exceeded. Please wait a minute."
MsgHour     == "Hourly limit reached. Please wait."
MsgDay      == "Daily limit reached. Try again tomorrow."
MsgWithin   == "Within limits"
MsgService  == "Service error"

VARIABLES
    now,        \* datetime.utcnow(), in ticks
    usage,      \* collection ai_usage_tracking: device id -> document
    keys,       \* collection shared_ai_keys: key id -> document
    secrets,    \* key ids whose secret "ai-key-<id>" Secret Manager returns
    pc,         \* per request slot: where the handler stands
    dev,        \* per slot: device_id of the request
    req_now,    \* per slot: the local `now` of the function the request is
                \* in (check_rate_limits, then track_usage)
    api_key,    \* per slot: what get_next_available_key returned
    result,     \* per slot: what proxy_to_gemini returned
    resp,       \* per slot: the HTTP answer (status, message)
    out,        \* per slot: the body of the answer and the lines logged
    started,    \* number of requests started so far
    trackLog,   \* per device: the clock value of every track_usage call made
    fwdLog,     \* per device: for every upstream call made, the key it
                \* carried and that key's used_today at the call
    auth_req,   \* device_authenticator: the request it handled last
    auth_resp,  \* device_authenticator: the answer it gave to auth_req
    status_req, \* get_device_status: the request it handled last
    status_resp, \* get_device_status: the answer it gave to status_req
    fp_req,     \* generate_device_id: a pair of requests
    fp_out,     \* generate_device_id: the device ids of the pair
    auth_calls, \* device_authenticator: the create_custom_token calls it
                \* made for auth_req
    flow        \* a run of one of the flow scripts

\* the state of ai_proxy
main == <<now, usage, keys, secrets, pc, dev, req_now, api_key, result, resp,
          out, started, trackLog, fwdLog>>

\* the state of the other handlers
side == <<auth_req, auth_resp, status_req, status_resp, fp_req, fp_out,
          auth_calls, flow>>

vars == <<now, usage, keys, secrets, pc, dev, req_now, api_key, result, resp,
          out, started, trackLog, fwdLog, auth_req, auth_resp, status_req,
          status_resp, fp_req, fp_out, auth_calls, flow>>

\* ------------------------------------------------------- Firestore values
\* a document of ai_usage_tracking; exists = FALSE is the missing document.
\* successful_requests, total_tokens and last_request are not written by the
\* creating set(): Increment on a missing field starts from 0, and
\* last_request = -1 stands for the missing field.
NoDoc ==
    [exists |-> FALSE, created_at |-> -1, total_requests |-> 0,
     successful_requests |-> 0, total_tokens |-> 0, last_request |-> -1,
     requests_this_minute |-> <<>>, requests_this_hour |-> <<>>,
     requests_this_day |-> <<>>]

\* the document written by usage_ref.set(...) for a first-time user
NewDoc(t) ==
    [exists |-> TRUE, created_at |-> t, total_requests |-> 0,
     successful_requests |-> 0, total_tokens |-> 0, last_request |-> -1,
     requests_this_minute |-> <<>>, requests_this_hour |-> <<>>,
     requests_this_day |-> <<>>]

Range(s) == {s[i] : i \in DOMAIN s}

\* firestore.ArrayUnion([x]): append x unless the array already holds it
ArrayUnion(arr, x) == IF x \in Range(arr) THEN arr ELSE Append(arr, x)

\* [ts for ts in arr if ts > bound]: the timestamps of a stored array come
\* back from Firestore as timezone-aware datetimes, bound is computed from
\* the naive datetime.utcnow(), and `ts > bound` raises TypeError at the
\* first element; only the empty array is filtered, to the empty list
Pruned(arr, bound) == [raised |-> arr # <<>>, list |-> <<>>]

\* the evaluation of check_rate_limits on an existing document read at time
\* t: the lifetime test comes before the windows are filtered; a TypeError
\* of the filter is caught by the except branch, which returns
\* (False, "Service error")
CheckLimits(doc, t) ==
    LET minute_ago == t - MinuteTicks
        hour_ago   == t - HourTicks
        day_ago    == t - DayTicks
        requests_this_minute == Pruned(doc.requests_this_minute, minute_ago)
        requests_this_hour   == Pruned(doc.requests_this_hour, hour_ago)
        requests_this_day    == Pruned(doc.requests_this_day, day_ago)
    IN  IF doc.total_requests >= RATE_LIMITS.requests_per_device
          THEN [allowed |-> FALSE, message |-> MsgLifetime]
        ELSE IF \/ requests_this_minute.raised
                \/ requests_this_hour.raised
                \/ requests_this_day.raised
          THEN [allowed |-> FALSE, message |-> MsgService]
        ELSE IF Len(requests_this_minute.list)
                   >= RATE_LIMITS.requests_per_minute
          THEN [allowed |-> FALSE, message |-> MsgMinute]
        ELSE IF Len(requests_this_hour.list) >= RATE_LIMITS.requests_per_hour
          THEN [allowed |-> FALSE, message |-> MsgHour]
        ELSE IF Len(requests_this_day.list) >= RATE_LIMITS.requests_per_day
          THEN [allowed |-> FALSE, message |-> MsgDay]
        ELSE [allowed |-> TRUE, message |-> MsgWithin]

\* track_usage counting every request as successful
TrackUpdate_always_success(doc, success, tokens, t) ==
    [doc EXCEPT !.total_requests = @ + 1,
                !.successful_requests = @ + 1,
                !.total_tokens = @ + tokens,
                !.last_request = t,
                !.requests_this_minute = ArrayUnion(@, t),
                !.requests_this_hour = ArrayUnion(@, t),
                !.requests_this_day = ArrayUnion(@, t)]

\* usage_ref.update({...}) of track_usage on an existing document
TrackUpdate(doc, success, tokens, t) ==
    [doc EXCEPT !.total_requests = @ + 1,
                !.successful_requests = @ + (IF success THEN 1 ELSE 0),
                !.total_tokens = @ + tokens,
                !.last_request = t,
                !.requests_this_minute = ArrayUnion(@, t),
                !.requests_this_hour = ArrayUnion(@, t),
                !.requests_this_day = ArrayUnion(@, t)]

\* ------------------------------------------------------------ key pool
\* the documents of shared_ai_keys; present = FALSE is a key id with no
\* document
AbsentKey ==
    [present |-> FALSE, active |-> FALSE, used_today |-> 0, daily_quota |-> 0]

KeyDocs ==
    [present : {TRUE}, active : BOOLEAN, used_today : {3, 7, 1000},
     daily_quota : {5, 1000, 2000}]

Pools == [KeyIds -> KeyDocs \cup {AbsentKey}]

\* the order of order_by('used_today', direction=DESCENDING)
Before_descending(pool, a, b) ==
    \/ pool[a].used_today > pool[b].used_today
    \/ pool[a].used_today = pool[b].used_today /\ a <= b

\* Firestore's order for order_by('used_today'): the field, then the id
Before(pool, a, b) ==
    \/ pool[a].used_today < pool[b].used_today
    \/ pool[a].used_today = pool[b].used_today /\ a <= b

\* .limit(1).get() of a query matching the key ids S: its first id, or NoKey
FirstOf(pool, S) ==
    IF S = {} THEN NoKey
    ELSE CHOOSE k \in S : \A j \in S : Before(pool, k, j)

\* keys_ref.where('active', '==', True).order_by('used_today').limit(1)
LeastUsedActive(pool) ==
    FirstOf(pool, {k \in KeyIds : pool[k].present /\ pool[k].active})

\* keys_ref.where('active', '==', True).where('used_today', '<', 1000).limit(1)
FallbackKey(pool) ==
    FirstOf(pool, {k \in KeyIds : /\ pool[k].present
                                  /\ pool[k].active
                                  /\ pool[k].used_today < FallbackQuota})

\* the document whose secret get_next_available_key asks for, or NoKey
SelectedDoc(pool) ==
    LET first == LeastUsedActive(pool)
    IN  IF first = NoKey THEN NoKey
        ELSE IF pool[first].used_today >= pool[first].daily_quota
          THEN FallbackKey(pool)
        ELSE first

\* get_next_available_key: the secret of the selected document (written as
\* the key's id), NoKey when no document is selected or get_secret raises
get_next_available_key(pool, sec) ==
    LET k == SelectedDoc(pool)
    IN  IF k = NoKey THEN NoKey
        ELSE IF k \in sec THEN k
        ELSE NoKey

\* ------------------------------------------------------ texts and secrets
\* the values Secret Manager may hold under "ai-key-<id>"
Materials == {"AIzaSy-one", "AIzaSy-two"}

\* the payload Secret Manager holds under "ai-key-<k>", whatever its value
SecretOf(k) == "payload of ai-key-" \o ToString(k)

\* A text is the sequence of its pieces: an f-string is the concatenation of
\* its literal pieces and of its values, and a text contains a value when
\* one of its pieces is that value.
Contains(text, piece) == \E i \in 1..Len(text) : text[i] = piece

\* the text as it reads when the payloads of the secrets have the value m
Rendered(text, m) ==
    [i \in 1..Len(text) |->
        IF \E k \in KeyIds : text[i] = SecretOf(k) THEN m ELSE text[i]]

\* hexdigest()[:16] of the fingerprint of device d
DeviceText(d) == "device-" \o ToString(d)

GEMINI_API_BASE == "https://generativelanguage.googleapis.com/v1beta"

\* the url proxy_to_gemini posts to, for the default model and endpoint
GeminiUrl(api_key_text) ==
    <<GEMINI_API_BASE, "/models/", "gemini-1.5-flash", ":", "generateContent",
      "?key=", api_key_text>>

\* what the body of proxy_to_gemini's try block meets: an answer of the
\* upstream API with its token count, requests.exceptions.Timeout, the
\* HTTPError of raise_for_status, a ConnectionError, or an exception that
\* is no RequestException (the upstream answer is a JSON array, and
\* result.get('usageMetadata', {}) finds no get())
UpstreamOutcomes ==
    {[kind |-> "answer", tokens |-> n] : n \in 0..MaxTokens}
    \cup {[kind |-> k, tokens |-> 0] :
             k \in {"timeout", "http_error", "connection_error",
                    "other_error"}}

\* str(e) of the exception raised: requests writes the url of the request
\* into the text of an HTTPError, and urllib3 the path and query into the
\* text of a connection failure
ExceptionText(o, url) ==
    IF o.kind = "http_error"
      THEN <<"403 Client Error: Forbidden for url: ">> \o url
    ELSE IF o.kind = "connection_error"
      THEN <<"HTTPSConnectionPool(host='generativelanguage.googleapis.com', port=443): Max retries exceeded with url: ",
             "/v1beta">> \o Tail(url) \o <<" (Caused by NewConnectionError)">>
    ELSE IF o.kind = "timeout"
      THEN <<"HTTPSConnectionPool(host='generativelanguage.googleapis.com', port=443): Read timed out. (read timeout=30)">>
    ELSE <<"'list' object has no attribute 'get'">>

\* the dict proxy_to_gemini returns
Success(response, tokens_used) ==
    [success |-> TRUE, response |-> response, tokens_used |-> tokens_used,
     error |-> <<>>]

Failure(error) ==
    [success |-> FALSE, response |-> <<>>, tokens_used |-> 0,
     error |-> error]

NoResult == Failure(<<>>)

\* json.dumps of the upstream answer
UpstreamJson(o) ==
    <<"{\"usageMetadata\": {\"totalTokenCount\": ", ToString(o.tokens), "}}">>

\* proxy_to_gemini returning the text of the exception as its error
proxy_to_gemini_error_text(api_key_text, o) ==
    LET e == ExceptionText(o, GeminiUrl(api_key_text))
    IN  IF o.kind = "answer"
          THEN [result |-> Success(UpstreamJson(o), o.tokens),
                logged |-> <<>>]
        ELSE [result |-> Failure(e), logged |-> <<>>]

\* proxy_to_gemini(request_data, api_key): the dict it returns and the
\* lines it logs
proxy_to_gemini(api_key_text, o) ==
    LET e == ExceptionText(o, GeminiUrl(api_key_text))
    IN  IF o.kind = "answer"
          THEN [result |-> Success(UpstreamJson(o), o.tokens),
                logged |-> <<>>]
        ELSE IF o.kind = "timeout"
          THEN [result |-> Failure(<<"Request timeout">>), logged |-> <<>>]
        ELSE IF o.kind \in {"http_error", "connection_error"}
          THEN [result |-> Failure(<<"API request failed">>),
                logged |-> << <<"Gemini API request failed: ">> \o e >>]
        ELSE [result |-> Failure(<<"Internal error">>),
              logged |-> << <<"Unexpected error in proxy: ">> \o e >>]

\* str(e) of the exception a failing Firestore call raises
StoreDown == "503 The service is currently unavailable."

\* the bodies ai_proxy answers with
DeniedBody(message) ==
    <<"{\"error\": \"Rate limit exceeded\", \"message\": \"", message,
      "\", \"upgrade_url\": \"https://anava.ai/upgrade\"}">>
NoKeyBody ==
    <<"{\"error\": \"Service temporarily unavailable\", \"message\": \"No API keys available. Please try again later.\"}">>
FailedBody(error) ==
    <<"{\"error\": \"">> \o error
      \o <<"\", \"message\": \"Failed to process AI request\"}">>
InternalError ==
    <<"{\"error\": \"Internal server error\", \"message\": \"An unexpected error occurred\"}">>

\* ------------------------------------------------------------- requests
NoResp == [status |-> 0, message |-> ""]

\* nothing answered, nothing logged
NoOut == [body |-> <<>>, logged |-> <<>>]

\* the line ai_proxy logs once it has the device id
Processing(d) == <<"Processing request for device: ", DeviceText(d)>>

\* what a request of device d has let out when check_rate_limits is called
Admitted(d) == [body |-> <<>>, logged |-> <<Processing(d)>>]

InFlight(r) == pc[r] \notin {"idle", "done"}

\* the request logs the lines and goes on
Logs(r, lines) == out' = [out EXCEPT ![r].logged = @ \o lines]

\* the handler returns (body, status) having let out `o`; message is the
\* text that tells the answers of one status apart; its locals are gone
Return(r, status, message, o) ==
    /\ pc' = [pc EXCEPT ![r] = "done"]
    /\ resp' = [resp EXCEPT ![r] = [status |-> status, message |-> message]]
    /\ out' = [out EXCEPT ![r] = o]
    /\ req_now' = [req_now EXCEPT ![r] = 0]
    /\ api_key' = [api_key EXCEPT ![r] = NoKey]
    /\ result' = [result EXCEPT ![r] = NoResult]

\* the handler logs the lines and returns (body, status)
Finish(r, status, message, body, lines) ==
    Return(r, status, message,
           [body |-> body, logged |-> out[r].logged \o lines])

\* the answer after proxy_to_gemini and track_usage: the upstream answer
\* with 200, or the error of the result with 500
Answer(r, lines) ==
    IF result[r].success
      THEN Finish(r, 200, "", result[r].response, lines)
    ELSE Finish(r, 500, result[r].error[1], FailedBody(result[r].error),
                lines)

\* what request.get_json() gives: a falsy value (None, {}, [], 0, "",
\* false), a non-empty JSON object, or another truthy value, named by its
\* Python type: a non-empty array (list) or string (str), a number (int,
\* float), true (bool)
NonObjects == {"list", "str", "int", "float", "bool"}
Bodies == {"falsy", "object"} \cup NonObjects

\* str(e) of the AttributeError generate_device_id raises on such a value
NoGet(body) == "'" \o body \o "' object has no attribute 'get'"

\* ai_proxy up to the call of check_rate_limits: CORS preflight, method and
\* body validation, generate_device_id, and check_rate_limits' read of now.
\* A truthy body that is no object passes `if not request_data`, and
\* generate_device_id's request.get_json().get(...) raises: the except branch
\* of ai_proxy answers 500 before any store is touched.
Start(r, method, body, d) ==
    /\ pc[r] \in {"idle", "done"}
    /\ started' = started + 1
    /\ dev' = [dev EXCEPT ![r] = d]
    /\ IF method = "OPTIONS"
         THEN Return(r, 204, "", [NoOut EXCEPT !.body = <<"">>])
       ELSE IF method # "POST"
         THEN Return(r, 405, "Method not allowed",
                     [NoOut EXCEPT !.body =
                         <<"{\"error\": \"Method not allowed\"}">>])
       ELSE IF body = "falsy"
         THEN Return(r, 400, "Invalid request body",
                     [NoOut EXCEPT !.body =
                         <<"{\"error\": \"Invalid request body\"}">>])
       ELSE IF body \in NonObjects
         THEN Return(r, 500, "Internal server error",
                     [body |-> InternalError,
                      logged |-> << <<"Unhandled error in ai_proxy: ",
                                      NoGet(body)>> >>])
       ELSE /\ pc' = [pc EXCEPT ![r] = "check"]
            /\ resp' = [resp EXCEPT ![r] = NoResp]
            /\ out' = [out EXCEPT ![r] = Admitted(d)]
            /\ req_now' = [req_now EXCEPT ![r] = now]
            /\ UNCHANGED <<api_key, result>>
    /\ UNCHANGED <<now, usage, keys, secrets, trackLog, fwdLog>>
    /\ UNCHANGED side

\* check_rate_limits writing back the windows without the timestamps that
\* have left them
CheckGet_writeback(r) ==
    /\ pc[r] = "check"
    /\ LET doc == usage[dev[r]]
           res == CheckLimits(doc, req_now[r])
       IN  /\ usage' = [usage EXCEPT ![dev[r]] =
                  IF ~doc.exists THEN doc
                  ELSE [doc EXCEPT
                      !.requests_this_minute =
                          SelectSeq(@, LAMBDA ts :
                                         ts > req_now[r] - MinuteTicks),
                      !.requests_this_hour =
                          SelectSeq(@, LAMBDA ts : ts > req_now[r] - HourTicks),
                      !.requests_this_day =
                          SelectSeq(@, LAMBDA ts : ts > req_now[r] - DayTicks)]]
           /\ IF ~doc.exists
                THEN /\ pc' = [pc EXCEPT ![r] = "create"]
                     /\ UNCHANGED <<resp, out, req_now, api_key, result>>
              ELSE IF res.allowed
                THEN /\ pc' = [pc EXCEPT ![r] = "getkey"]
                     /\ UNCHANGED <<resp, out, req_now, api_key, result>>
              ELSE Finish(r, 429, res.message, DeniedBody(res.message), <<>>)
    /\ UNCHANGED <<now, keys, secrets, dev, started, trackLog, fwdLog>>
    /\ UNCHANGED side

\* check_rate_limits from usage_ref.get() on: a missing document sends the
\* request to the creating set(); an existing one is evaluated at once, and
\* ai_proxy answers 429 with the reason when it is not allowed.  The except
\* branch logs str(e) of the TypeError before it returns "Service error".
CheckGet(r) ==
    /\ pc[r] = "check"
    /\ LET doc == usage[dev[r]]
           res == CheckLimits(doc, req_now[r])
           logged ==
               IF res.message = MsgService
                 THEN << <<"Rate limit check failed: ",
                           "can't compare offset-naive and offset-aware datetimes">> >>
               ELSE <<>>
       IN  IF ~doc.exists
             THEN /\ pc' = [pc EXCEPT ![r] = "create"]
                  /\ UNCHANGED <<resp, out, req_now, api_key, result>>
           ELSE IF res.allowed
             THEN /\ pc' = [pc EXCEPT ![r] = "getkey"]
                  /\ UNCHANGED <<resp, out, req_now, api_key, result>>
           ELSE Finish(r, 429, res.message, DeniedBody(res.message), logged)
    /\ UNCHANGED <<now, usage, keys, secrets, dev, started, trackLog, fwdLog>>
    /\ UNCHANGED side

\* usage_ref.set({...}) for a first-time user: writes the whole document
CheckSet(r) ==
    /\ pc[r] = "create"
    /\ usage' = [usage EXCEPT ![dev[r]] = NewDoc(req_now[r])]
    /\ pc' = [pc EXCEPT ![r] = "getkey"]
    /\ UNCHANGED <<now, keys, secrets, dev, req_now, api_key, result, resp,
                   out, started, trackLog, fwdLog>>
    /\ UNCHANGED side

\* the warning get_next_available_key logs for the document k
QuotaReached(k) == <<"Key ", ToString(k), " has reached daily quota">>

\* get_next_available_key's first query (the least-used active key): with
\* no active key the function logs that, returns None and ai_proxy answers
\* 503; a key at or over its own daily_quota is logged and sends the
\* function to its second query; any other key is the document whose secret
\* is asked for
KeyQuery(r) ==
    /\ pc[r] = "getkey"
    /\ LET first == LeastUsedActive(keys)
       IN  IF first = NoKey
             THEN Finish(r, 503, "Service temporarily unavailable", NoKeyBody,
                         << <<"No available API keys in pool">> >>)
           ELSE IF keys[first].used_today >= keys[first].daily_quota
             THEN /\ pc' = [pc EXCEPT ![r] = "fallback"]
                  /\ Logs(r, <<QuotaReached(first)>>)
                  /\ UNCHANGED <<resp, req_now, api_key, result>>
           ELSE /\ pc' = [pc EXCEPT ![r] = "secret"]
                /\ api_key' = [api_key EXCEPT ![r] = first]
                /\ UNCHANGED <<resp, out, req_now, result>>
    /\ UNCHANGED <<now, usage, keys, secrets, dev, started, trackLog, fwdLog>>
    /\ UNCHANGED side

\* get_next_available_key's second query (an active key with used_today
\* below 1000), made on the pool as it is when the query arrives
KeyFallback(r) ==
    /\ pc[r] = "fallback"
    /\ LET k == FallbackKey(keys)
       IN  IF k = NoKey
             THEN Finish(r, 503, "Service temporarily unavailable", NoKeyBody,
                         <<>>)
           ELSE /\ pc' = [pc EXCEPT ![r] = "secret"]
                /\ api_key' = [api_key EXCEPT ![r] = k]
                /\ UNCHANGED <<resp, out, req_now, result>>
    /\ UNCHANGED <<now, usage, keys, secrets, dev, started, trackLog, fwdLog>>
    /\ UNCHANGED side

\* the lines get_secret and get_next_available_key log when
\* access_secret_version raises for the document k
SecretFailed(k) ==
    << <<"Failed to get secret ", "ai-key-" \o ToString(k), ": ",
         "404 Secret not found">>,
       <<"Failed to decrypt API key: ", "404 Secret not found">> >>

\* ai_proxy answering the missing key like a quota denial
KeySecret_as_denial(r) ==
    /\ pc[r] = "secret"
    /\ IF api_key[r] \in secrets
         THEN /\ pc' = [pc EXCEPT ![r] = "proxy"]
              /\ UNCHANGED <<resp, out, req_now, api_key, result>>
       ELSE Finish(r, 429, "Service temporarily unavailable", NoKeyBody,
                   SecretFailed(api_key[r]))
    /\ UNCHANGED <<now, usage, keys, secrets, dev, started, trackLog, fwdLog>>
    /\ UNCHANGED side

\* get_secret("ai-key-<id>") for the selected document: the secret (written
\* as the key's id) is what ai_proxy goes on with; when
\* access_secret_version raises, both functions log it,
\* get_next_available_key returns None and ai_proxy answers 503
KeySecret(r) ==
    /\ pc[r] = "secret"
    /\ IF api_key[r] \in secrets
         THEN /\ pc' = [pc EXCEPT ![r] = "proxy"]
              /\ UNCHANGED <<resp, out, req_now, api_key, result>>
       ELSE Finish(r, 503, "Service temporarily unavailable", NoKeyBody,
                   SecretFailed(api_key[r]))
    /\ UNCHANGED <<now, usage, keys, secrets, dev, started, trackLog, fwdLog>>
    /\ UNCHANGED side

\* api_key = get_next_available_key(): one step per remote call
GetKey(r) == KeyQuery(r) \/ KeyFallback(r) \/ KeySecret(r)

\* the upstream call answered to the caller without track_usage
Proxy_untracked(r, o) ==
    /\ pc[r] = "proxy"
    /\ fwdLog' = [fwdLog EXCEPT ![dev[r]] =
                     Append(@, [key |-> api_key[r],
                                used |-> keys[api_key[r]].used_today])]
    /\ LET res == proxy_to_gemini(SecretOf(api_key[r]), o)
       IN  IF res.result.success
             THEN Finish(r, 200, "", res.result.response, res.logged)
           ELSE Finish(r, 500, res.result.error[1],
                       FailedBody(res.result.error), res.logged)
    /\ UNCHANGED <<now, usage, keys, secrets, dev, started, trackLog>>
    /\ UNCHANGED side

\* result = proxy_to_gemini(request_data, api_key): the one upstream call,
\* made with the secret as api_key, meets o at any clock value from that of
\* the quota check on, and track_usage reads its `now`
Proxy(r, o) ==
    /\ pc[r] = "proxy"
    /\ LET res == proxy_to_gemini(SecretOf(api_key[r]), o)
       IN  /\ result' = [result EXCEPT ![r] = res.result]
           /\ Logs(r, res.logged)
    /\ fwdLog' = [fwdLog EXCEPT ![dev[r]] =
                     Append(@, [key |-> api_key[r],
                                used |-> keys[api_key[r]].used_today])]
    /\ req_now' = [req_now EXCEPT ![r] = now]
    /\ pc' = [pc EXCEPT ![r] = "track"]
    /\ UNCHANGED <<now, usage, keys, secrets, dev, api_key, resp, started,
                   trackLog>>
    /\ UNCHANGED side

\* the line track_usage logs when usage_ref.update() raises
TrackFailed(text) == << <<"Failed to track usage: ", text>> >>

\* track_usage followed by a second upstream call when the first one failed
Track_retry(r) ==
    /\ pc[r] = "track"
    /\ trackLog' = [trackLog EXCEPT ![dev[r]] = Append(@, req_now[r])]
    /\ usage' = [usage EXCEPT ![dev[r]] =
                    IF @.exists
                      THEN TrackUpdate(@, result[r].success,
                                       result[r].tokens_used, req_now[r])
                    ELSE @]
    /\ IF result[r].success THEN Answer(r, <<>>)
       ELSE /\ pc' = [pc EXCEPT ![r] = "proxy"]
            /\ UNCHANGED <<resp, out, req_now, api_key, result>>
    /\ UNCHANGED <<now, keys, secrets, dev, started, fwdLog>>
    /\ UNCHANGED side

\* track_usage's usage_ref.update({...}) arriving at the store, stamped with
\* the `now` the function read before it sent the update, and the 200 or 500
\* answer; update() of a missing document raises, which is logged and
\* swallowed
Track(r) ==
    /\ pc[r] = "track"
    /\ trackLog' = [trackLog EXCEPT ![dev[r]] = Append(@, req_now[r])]
    /\ usage' = [usage EXCEPT ![dev[r]] =
                    IF @.exists
                      THEN TrackUpdate(@, result[r].success,
                                       result[r].tokens_used, req_now[r])
                    ELSE @]
    /\ Answer(r, IF usage[dev[r]].exists THEN <<>>
                 ELSE TrackFailed("404 No document to update"))
    /\ UNCHANGED <<now, keys, secrets, dev, started, fwdLog>>
    /\ UNCHANGED side

\* check_rate_limits letting the request through when the store raises
CheckFault_open(r) ==
    /\ pc[r] \in {"check", "create"}
    /\ pc' = [pc EXCEPT ![r] = "getkey"]
    /\ Logs(r, << <<"Rate limit check failed: ", StoreDown>> >>)
    /\ UNCHANGED <<now, usage, keys, secrets, dev, req_now, api_key, result,
                   resp, started, trackLog, fwdLog>>
    /\ UNCHANGED side

\* check_rate_limits when usage_ref.get() or usage_ref.set() raises: the
\* except branch logs the error and denies with "Service error"
CheckFault(r) ==
    /\ pc[r] \in {"check", "create"}
    /\ Finish(r, 429, MsgService, DeniedBody(MsgService),
              << <<"Rate limit check failed: ", StoreDown>> >>)
    /\ UNCHANGED <<now, usage, keys, secrets, dev, started, trackLog, fwdLog>>
    /\ UNCHANGED side

\* get_next_available_key when a query of the key collection raises: the
\* except branch of ai_proxy logs the error and answers 500
KeyFault(r) ==
    /\ pc[r] \in {"getkey", "fallback"}
    /\ Finish(r, 500, "Internal server error", InternalError,
              << <<"Unhandled error in ai_proxy: ", StoreDown>> >>)
    /\ UNCHANGED <<now, usage, keys, secrets, dev, started, trackLog, fwdLog>>
    /\ UNCHANGED side

\* track_usage when usage_ref.update() raises: the error is logged and
\* swallowed, and ai_proxy answers as the upstream result says
TrackFault(r) ==
    /\ pc[r] = "track"
    /\ trackLog' = [trackLog EXCEPT ![dev[r]] = Append(@, req_now[r])]
    /\ Answer(r, TrackFailed(StoreDown))
    /\ UNCHANGED <<now, usage, keys, secrets, dev, started, fwdLog>>
    /\ UNCHANGED side

Tick ==
    /\ now' = now + 1
    /\ UNCHANGED <<usage, keys, secrets, pc, dev, req_now, api_key, result,
                   resp, out, started, trackLog, fwdLog>>
    /\ UNCHANGED side

\* ------------------------------------------------- device_authenticator
\* the two deployed sources of the handler
AuthVariants == {"temp-functions", "temp-function-update"}

\* a JSON value found under "device_id": absent, a string or a number
DevIdMissing == [kind |-> "missing", s |-> "", n |-> 0]
DevIdStr(x) == [kind |-> "str", s |-> x, n |-> 0]
DevIdInt(x) == [kind |-> "int", s |-> "", n |-> x]

DeviceIdValues ==
    {DevIdMissing, DevIdStr(""), DevIdStr("cam-1"), DevIdStr("7"),
     DevIdInt(0), DevIdInt(7)}

\* request.get_json(silent=True): None ("none": no body, or not JSON), the
\* empty object, a non-empty JSON array, or a non-empty object
AuthBodies ==
    {[kind |-> k, device_id |-> DevIdMissing] : k \in {"none", "empty", "array"}}
    \cup {[kind |-> "object", device_id |-> v] : v \in DeviceIdValues}

\* Python's truth value of a device_id
Truthy(v) ==
    \/ v.kind = "str" /\ v.s # ""
    \/ v.kind = "int" /\ v.n # 0

\* str(device_id)
PyStr(v) == IF v.kind = "int" THEN ToString(v.n) ELSE v.s

\* auth.create_custom_token(uid=...): a token signed for that uid
CustomToken(uid) == "jwt." \o uid

AuthRequests ==
    [variant : AuthVariants, sdk : BOOLEAN, method : {"OPTIONS", "GET", "POST"},
     body : AuthBodies, signing : {"ok", "raises"}]

NoAuthReq ==
    [variant |-> "", sdk |-> FALSE, method |-> "",
     body |-> [kind |-> "none", device_id |-> DevIdMissing], signing |-> ""]

\* an answer of device_authenticator; token = "" is an answer without
\* firebase_custom_token
AuthAnswer(status, message, token) ==
    [status |-> status, message |-> message, token |-> token]

NoAuthResp == AuthAnswer(0, "", "")

\* temp-functions/device-auth/main.py.  A JSON array has no get(): the
\* AttributeError is caught by the except branch
device_authenticator(q) ==
    IF ~q.sdk THEN AuthAnswer(500, "Firebase SDK not init", "")
    ELSE IF q.method # "POST" THEN AuthAnswer(405, "Method Not Allowed", "")
    ELSE IF q.body.kind \in {"none", "empty"}
      THEN AuthAnswer(400, "Bad Request: No JSON", "")
    ELSE IF q.body.kind = "array" THEN AuthAnswer(500, "Token gen error", "")
    ELSE IF ~Truthy(q.body.device_id)
      THEN AuthAnswer(400, "Bad Request: 'device_id' missing", "")
    ELSE IF q.signing = "raises" THEN AuthAnswer(500, "Token gen error", "")
    ELSE AuthAnswer(200, "", CustomToken(PyStr(q.body.device_id)))

\* temp-function-update/device-auth testing the method before the SDK
device_authenticator_update_method_first(q) ==
    IF q.method = "OPTIONS" THEN AuthAnswer(204, "", "")
    ELSE IF q.method # "POST" THEN AuthAnswer(405, "Method not allowed", "")
    ELSE IF ~q.sdk THEN AuthAnswer(500, "Firebase SDK not initialized", "")
    ELSE IF q.body.kind \in {"none", "empty"}
      THEN AuthAnswer(400, "Bad Request: No JSON body", "")
    ELSE IF q.body.kind = "array"
      THEN AuthAnswer(500, "Token generation error: 'list' object has no attribute 'get'", "")
    ELSE IF ~Truthy(q.body.device_id)
      THEN AuthAnswer(400, "Bad Request: 'device_id' missing", "")
    ELSE IF q.signing = "raises"
      THEN AuthAnswer(500, "Token generation error: signing failed", "")
    ELSE AuthAnswer(200, "", CustomToken(PyStr(q.body.device_id)))

\* temp-function-update/device-auth/main.py: the preflight answer comes
\* before every other test
device_authenticator_update(q) ==
    IF q.method = "OPTIONS" THEN AuthAnswer(204, "", "")
    ELSE IF ~q.sdk THEN AuthAnswer(500, "Firebase SDK not initialized", "")
    ELSE IF q.method # "POST" THEN AuthAnswer(405, "Method not allowed", "")
    ELSE IF q.body.kind \in {"none", "empty"}
      THEN AuthAnswer(400, "Bad Request: No JSON body", "")
    ELSE IF q.body.kind = "array"
      THEN AuthAnswer(500, "Token generation error: 'list' object has no attribute 'get'", "")
    ELSE IF ~Truthy(q.body.device_id)
      THEN AuthAnswer(400, "Bad Request: 'device_id' missing", "")
    ELSE IF q.signing = "raises"
      THEN AuthAnswer(500, "Token generation error: signing failed", "")
    ELSE AuthAnswer(200, "", CustomToken(PyStr(q.body.device_id)))

\* the calls of auth.create_custom_token temp-functions/device-auth makes
\* for a request: the one call of its try block, reached by a POST with a
\* device_id when the SDK is initialised
signing_calls(q) ==
    IF q.sdk /\ q.method = "POST" /\ q.body.kind = "object"
       /\ Truthy(q.body.device_id)
      THEN 1
    ELSE 0

\* the same for temp-function-update/device-auth
signing_calls_update(q) ==
    IF q.method # "OPTIONS" /\ q.sdk /\ q.method = "POST"
       /\ q.body.kind = "object" /\ Truthy(q.body.device_id)
      THEN 1
    ELSE 0

\* one request handled by the deployed variant it is sent to
DeviceAuthenticator(q) ==
    /\ auth_req' = q
    /\ auth_resp' = IF q.variant = "temp-functions"
                      THEN device_authenticator(q)
                    ELSE device_authenticator_update(q)
    /\ UNCHANGED main
    /\ auth_calls' = IF q.variant = "temp-functions"
                       THEN signing_calls(q)
                     ELSE signing_calls_update(q)
    /\ UNCHANGED <<status_req, status_resp, fp_req, fp_out,
                   flow>>

\* ---------------------------------------------------- get_device_status
\* resolvable = FALSE: no device_id argument and no JSON body to derive one
\* from (generate_device_id raises); store_ok = FALSE: usage_ref.get() raises
StatusRequests ==
    [method : {"OPTIONS", "GET", "POST"}, resolvable : BOOLEAN,
     store_ok : BOOLEAN, device : Devices]

NoStatusReq ==
    [method |-> "", resolvable |-> FALSE, store_ok |-> FALSE, device |-> 1]

\* created_at = -1: the answer carries no created_at
NoStatusResp ==
    [code |-> 0, error |-> "", status |-> "", requests_used |-> 0,
     requests_remaining |-> 0, daily_limit |-> 0, created_at |-> -1]

Max(a, b) == IF a >= b THEN a ELSE b

\* get_device_status reporting the difference without max(0, ...)
get_device_status_no_max(q, coll) ==
    IF q.method = "OPTIONS" THEN [NoStatusResp EXCEPT !.code = 204]
    ELSE IF ~q.resolvable \/ ~q.store_ok
      THEN [NoStatusResp EXCEPT !.code = 500, !.error = "Failed to get status"]
    ELSE LET doc == coll[q.device]
             total_requests == doc.total_requests
         IN  IF ~doc.exists
               THEN [NoStatusResp EXCEPT
                        !.code = 200, !.status = "new", !.requests_used = 0,
                        !.requests_remaining = RATE_LIMITS.requests_per_device,
                        !.daily_limit = RATE_LIMITS.requests_per_day]
             ELSE [code |-> 200, error |-> "",
                   status |-> IF total_requests < RATE_LIMITS.requests_per_device
                                THEN "active" ELSE "limit_reached",
                   requests_used |-> total_requests,
                   requests_remaining |->
                       RATE_LIMITS.requests_per_device - total_requests,
                   daily_limit |-> RATE_LIMITS.requests_per_day,
                   created_at |-> doc.created_at]

\* the answer of get_device_status over the usage collection coll
get_device_status(q, coll) ==
    IF q.method = "OPTIONS" THEN [NoStatusResp EXCEPT !.code = 204]
    ELSE IF ~q.resolvable \/ ~q.store_ok
      THEN [NoStatusResp EXCEPT !.code = 500, !.error = "Failed to get status"]
    ELSE LET doc == coll[q.device]
             total_requests == doc.total_requests
         IN  IF ~doc.exists
               THEN [NoStatusResp EXCEPT
                        !.code = 200, !.status = "new", !.requests_used = 0,
                        !.requests_remaining = RATE_LIMITS.requests_per_device,
                        !.daily_limit = RATE_LIMITS.requests_per_day]
             ELSE [code |-> 200, error |-> "",
                   status |-> IF total_requests < RATE_LIMITS.requests_per_device
                                THEN "active" ELSE "limit_reached",
                   requests_used |-> total_requests,
                   requests_remaining |->
                       Max(0, RATE_LIMITS.requests_per_device - total_requests),
                   daily_limit |-> RATE_LIMITS.requests_per_day,
                   created_at |-> doc.created_at]

GetDeviceStatus(q) ==
    /\ status_req' = q
    /\ status_resp' = get_device_status(q, usage)
    /\ UNCHANGED main
    /\ UNCHANGED <<auth_req, auth_resp, auth_calls, fp_req, fp_out, flow>>

\* ---------------------------------------------------- generate_device_id
\* a header or body field the request does not carry
Absent == "(absent)"

\* the keys a device_info object may carry, in the order sort_keys puts them
InfoKeys == <<"model", "serial">>
InfoValues == {"a", "b"}

\* device_info as parsed: its members in the order the body lists them
InfoPairs == {<<k, v>> : k \in Range(InfoKeys), v \in InfoValues}

InfoItems ==
    {<<>>}
    \cup {<<m>> : m \in InfoPairs}
    \cup {p \in InfoPairs \X InfoPairs : p[1][1] # p[2][1]}

\* has_info = FALSE: the body has no device_info member
FpRequests ==
    {q \in [xff : {Absent, "10.0.0.1", "10.0.0.1:cam"},
            remote_addr : {"10.0.0.1", "10.0.0.2"},
            user_agent : {Absent, "", "cam", "cam:cam"},
            has_info : BOOLEAN,
            device_info : InfoItems] :
        q.has_info \/ q.device_info = <<>>}

HasKey(info, k) == \E i \in DOMAIN info : info[i][1] = k
ValueOf(info, k) == info[CHOOSE i \in DOMAIN info : info[i][1] = k][2]

\* "key": "value"
JsonItem(info, k) == "\"" \o k \o "\": \"" \o ValueOf(info, k) \o "\""

RECURSIVE JoinItems(_, _)
JoinItems(info, ks) ==
    IF ks = <<>> THEN ""
    ELSE JsonItem(info, Head(ks))
         \o (IF Len(ks) > 1 THEN ", " ELSE "")
         \o JoinItems(info, Tail(ks))

\* json.dumps(camera_info) with the members in the order of the body
json_dumps_unsorted(info) ==
    "{" \o JoinItems(info, [i \in DOMAIN info |-> info[i][1]]) \o "}"

\* json.dumps(camera_info, sort_keys=True)
json_dumps(info) ==
    "{" \o JoinItems(info, SelectSeq(InfoKeys, LAMBDA k : HasKey(info, k)))
        \o "}"

\* hashlib.sha256(...).hexdigest()[:16], taken as free of collisions: the
\* digest stands for the string it was computed from
sha256_hex16(str) == [digest_of |-> str]

generate_device_id(q) ==
    LET ip == IF q.xff # Absent THEN q.xff ELSE q.remote_addr
        user_agent == IF q.user_agent # Absent THEN q.user_agent ELSE ""
        camera_info == IF q.has_info THEN q.device_info ELSE <<>>
        device_string ==
            ip \o ":" \o user_agent \o ":" \o json_dumps(camera_info)
    IN  sha256_hex16(device_string)

NoFp == <<>>

\* the device ids of the two requests of fp_req
GenerateDeviceIds ==
    /\ fp_out' = <<generate_device_id(fp_req[1]), generate_device_id(fp_req[2])>>
    /\ UNCHANGED main
    /\ UNCHANGED <<auth_req, auth_resp, auth_calls, status_req, status_resp,
                   fp_req, flow>>

\* no request has reached device_authenticator, get_device_status or
\* generate_device_id
\* ----------------------------------------------------------- flow scripts
\* the scripts of src that run as a device does: the test-*.py that can be
\* run.  test-firestore-403.py is no program (the `\!=` of its line 36 is a
\* syntax error, so nothing of it is executed) and deploy-firestore-rules.py
\* deploys rules under the operator's gcloud token.
Scripts ==
    {"test-montest2-deployment", "test-camera-auth-flow",
     "test-full-camera-flow", "test-camera-exact-flow", "test-direct-tvm",
     "test-firestore-write", "test-vertex-cloud-setup",
     "test-vertex-enhanced"}

\* the three hops of the identity exchange: the custom token from
\* device-auth, the ID token from signInWithCustomToken, the access token
\* from the token vendor
Hops == <<"device-auth", "signInWithCustomToken", "token-vendor">>

\* the calls of a script in program order, those that are made only after
\* some answer (Followups) left out.  test-firestore-write makes no hop;
\* test-vertex-cloud-setup asks the gateway's /health first;
\* test-vertex-enhanced posts to 6 regions x 4 models and then asks
\* serviceusage.
Calls(script) ==
    IF script = "test-montest2-deployment"
      THEN Hops \o <<"firestore-device">>
    ELSE IF script = "test-camera-auth-flow"
      THEN Hops \o <<"firestore-device", "firestore-session",
                     "firestore-event">>
    ELSE IF script = "test-full-camera-flow"
      THEN Hops \o <<"firestore-device", "firestore-session",
                     "firestore-event", "vertex-ai", "firestore-read",
                     "delete-event", "delete-session", "delete-device">>
    ELSE IF script = "test-camera-exact-flow"
      THEN Hops \o <<"firestore-device", "firestore-session",
                     "firestore-event", "firestore-read", "read-session",
                     "read-event", "vertex-ai", "delete-event",
                     "delete-session", "delete-device">>
    ELSE IF script = "test-direct-tvm"
      THEN Hops \o <<"firestore-device">>
    ELSE IF script = "test-firestore-write"
      THEN <<"firestore-device", "firestore-session", "firestore-event">>
    ELSE IF script = "test-vertex-cloud-setup"
      THEN <<"health">> \o Hops
           \o <<"firestore-device", "firestore-read", "storage-list",
                "storage-upload", "storage-delete", "vertex-ai",
                "delete-device">>
    ELSE Hops \o [i \in 1..(6 * 4) |-> "vertex-ai"] \o <<"serviceusage">>

\* what response.json() gives: a JSON object holding the field the script
\* reads, whose value is a string or an array ("text"), a JSON object
\* ("map") or a number, true, false or null ("scalar"); a JSON object
\* without the field ("object"); a JSON value that is no object, or an
\* empty body ("other"); a text that is no JSON ("nojson")
CallBodies == {"text", "map", "scalar", "object", "other", "nojson"}

\* what a call meets: a response with its status and body, or an
\* exception of requests
CallAnswers ==
    [kind : {"response"}, status : {200, 202, 403, 404, 500},
     body : CallBodies]
    \cup {[kind |-> "raises", status |-> 0, body |-> "other"]}

\* a hop lets the script go on to its next call.  The status:
\* test-camera-auth-flow and test-direct-tvm test status_code != 200,
\* test-vertex-enhanced tests nothing, the others call raise_for_status(),
\* which raises for 400 to 599.  The body: all read response.json()["..."],
\* which raises unless the body is a JSON object with the field;
\* test-camera-exact-flow, test-direct-tvm and (for its first two hops)
\* test-vertex-enhanced hand the value on as it is, the others print
\* token[:50] first (test-vertex-enhanced that of the access token), which
\* raises unless the value is a string or an array.
HopPasses(script, name, a) ==
    /\ a.kind = "response"
    /\ IF script \in {"test-camera-auth-flow", "test-direct-tvm"}
         THEN a.status = 200
       ELSE IF script = "test-vertex-enhanced" THEN TRUE
       ELSE a.status < 400
    /\ IF \/ script \in {"test-camera-exact-flow", "test-direct-tvm"}
          \/ script = "test-vertex-enhanced" /\ name # "token-vendor"
         THEN a.body \in {"text", "map", "scalar"}
       ELSE a.body = "text"

\* whether a call that is no hop lets the script go on to the call that
\* follows it in the same block: FALSE when the call, raise_for_status()
\* where the script calls it, or the reading of the body raises.  The
\* bodies are read with response.json().get(..., default), with
\* len(doc.get(name, default)) in the read steps, and with
\* `response.json() if response.text else {}` after a status other than 200
\* in test-direct-tvm and test-firestore-write.  The steps 2 to 4 and 6 of
\* test-camera-exact-flow and the loop of test-vertex-enhanced catch
\* everything and go on.  Step 7 of test-vertex-cloud-setup parses the
\* lines of a 200's text, catching JSONDecodeError only, and reads a 403's
\* JSON only under a JSON content-type: what the lines and the header are
\* is left open, and both outcomes are possible.
UseOutcomes(script, name, a) ==
    LET answered == a.kind = "response"
        dict == a.body \notin {"other", "nojson"}
        sized == a.body \in {"text", "map", "object"}
    IN  IF script = "test-montest2-deployment"
          THEN {/\ answered
                /\ (name \in {"firestore-device", "tokeninfo"}
                    /\ a.status = 200) => dict}
        ELSE IF script = "test-camera-auth-flow"
          THEN {/\ answered
                /\ (name = "firestore-device" /\ a.status = 200) => dict}
        ELSE IF script = "test-full-camera-flow"
          THEN {/\ answered
                /\ IF name = "vertex-ai"
                     THEN a.status = 403 \/ a.status < 400
                   ELSE IF name \in {"delete-event", "delete-session",
                                     "delete-device"}
                     THEN TRUE
                   ELSE IF name = "firestore-device"
                     THEN a.status < 400 /\ dict
                   ELSE IF name = "firestore-read"
                     THEN a.status < 400 /\ sized
                   ELSE a.status < 400}
        ELSE IF script = "test-camera-exact-flow"
          THEN IF name \in {"firestore-device", "firestore-session",
                            "firestore-event", "vertex-ai"}
                 THEN {TRUE}
               ELSE {answered}
        ELSE IF script \in {"test-direct-tvm", "test-firestore-write"}
          THEN {answered /\ (a.status # 200 => a.body # "nojson")}
        ELSE IF script = "test-vertex-cloud-setup"
          THEN IF name \in {"health", "delete-device"} THEN {TRUE}
               ELSE IF name \in {"health-device-auth", "storage-delete"}
                 THEN {answered}
               ELSE IF name = "firestore-device"
                 THEN {answered /\ a.status < 400 /\ dict}
               ELSE IF name \in {"firestore-read", "storage-list"}
                 THEN {answered /\ a.status < 400 /\ sized}
               ELSE IF name = "storage-upload"
                 THEN {answered /\ a.status < 400}
               ELSE IF ~answered THEN {FALSE}
               ELSE IF a.status = 200 THEN BOOLEAN
               ELSE IF a.status = 403
                 THEN IF dict THEN {TRUE} ELSE BOOLEAN
               ELSE {a.status < 400}
        ELSE {TRUE}

\* the calls an answer puts before those the script has yet to make:
\* test-montest2-deployment asks tokeninfo after a 403 and deletes the
\* document after a 200 whose body it could read; test-vertex-cloud-setup
\* posts a device-auth request for the device "health-check" unless
\* /health was answered 200 or 404
Followups(script, name, a) ==
    IF script = "test-montest2-deployment" /\ name = "firestore-device"
       /\ a.kind = "response"
      THEN IF a.status = 403 THEN <<"tokeninfo">>
           ELSE IF a.status = 200 /\ a.body \notin {"other", "nojson"}
             THEN <<"firestore-delete">>
           ELSE <<>>
    ELSE IF script = "test-vertex-cloud-setup" /\ name = "health"
            /\ ~(a.kind = "response" /\ a.status \in {200, 404})
      THEN <<"health-device-auth">>
    ELSE <<>>

\* the calls left out after `name` has raised: the rest of its try block
\* (steps 5 and 7 of test-camera-exact-flow) or of its test_step function
\* (steps 5 and 6 of test-vertex-cloud-setup)
Skipped(script, name) ==
    IF script = "test-camera-exact-flow"
      THEN IF name = "firestore-read" THEN {"read-session", "read-event"}
           ELSE IF name = "read-session" THEN {"read-event"}
           ELSE IF name = "delete-event"
             THEN {"delete-session", "delete-device"}
           ELSE IF name = "delete-session" THEN {"delete-device"}
           ELSE {}
    ELSE IF script = "test-vertex-cloud-setup"
      THEN IF name = "firestore-device" THEN {"firestore-read"}
           ELSE IF name = "storage-list"
             THEN {"storage-upload", "storage-delete"}
           ELSE IF name = "storage-upload" THEN {"storage-delete"}
           ELSE {}
    ELSE {}

\* the exit status with which a script is stopped by the exception of a
\* call that is no hop (uncaught, re-raised by test_step, or answered with
\* sys.exit(1) after the critical step 1 of test-vertex-cloud-setup); -1
\* where the exception is caught and the script goes on
ExitStopped(script, name) ==
    IF script \in {"test-montest2-deployment", "test-camera-exact-flow",
                   "test-vertex-enhanced"}
      THEN -1
    ELSE IF script = "test-vertex-cloud-setup"
      THEN IF name = "health-device-auth" THEN 1 ELSE -1
    ELSE 1

\* what is kept of a call: its name and, of a hop, the status it was
\* answered with (0 when the call raised) and whether the answer carried
\* the token as a string or an array
Call(name, a) ==
    LET hop == \E h \in 1..Len(Hops) : Hops[h] = name
    IN  [name |-> name,
         status |-> IF hop THEN a.status ELSE 0,
         token |-> hop /\ a.kind = "response" /\ a.body = "text"]

\* todo: the calls the script has yet to make; failed: a step of
\* test-vertex-cloud-setup was counted in test_results['failed'];
\* exit = -1: the script is running
NoFlow ==
    [script |-> "", todo |-> <<>>, calls |-> <<>>, failed |-> FALSE,
     exit |-> -1]

FlowFrame ==
    /\ UNCHANGED main
    /\ UNCHANGED <<auth_req, auth_resp, auth_calls, status_req, status_resp,
                   fp_req, fp_out>>

\* a script is started
FlowStart(script) ==
    /\ flow = NoFlow
    /\ flow' = [NoFlow EXCEPT !.script = script, !.todo = Calls(script)]
    /\ FlowFrame

\* a hop: the call, then sys.exit(1) (or the uncaught exception) unless the
\* script goes on; test-vertex-cloud-setup counts the failed step in
\* test_results['failed'] before it leaves
FlowHop(a) ==
    /\ flow.exit = -1
    /\ flow.todo # <<>>
    /\ \E h \in 1..Len(Hops) : Hops[h] = Head(flow.todo)
    /\ LET passes == HopPasses(flow.script, Head(flow.todo), a)
       IN  flow' = [flow EXCEPT
                      !.calls = Append(@, Call(Head(flow.todo), a)),
                      !.todo = IF passes THEN Tail(@) ELSE <<>>,
                      !.failed =
                          \/ @
                          \/ ~passes
                             /\ flow.script = "test-vertex-cloud-setup",
                      !.exit = IF passes THEN -1 ELSE 1]
    /\ FlowFrame

\* a call that is no hop, with its own answer; after its last call the
\* script ends with status 0, test-vertex-cloud-setup with
\* 0 if test_results['failed'] == 0 else 1
FlowUse(a) ==
    /\ flow.exit = -1
    /\ flow.todo # <<>>
    /\ \A h \in 1..Len(Hops) : Hops[h] # Head(flow.todo)
    /\ \E passes \in UseOutcomes(flow.script, Head(flow.todo), a) :
         LET name == Head(flow.todo)
             stop == IF passes THEN -1 ELSE ExitStopped(flow.script, name)
             rest == IF passes
                       THEN Followups(flow.script, name, a)
                            \o Tail(flow.todo)
                     ELSE IF stop # -1 THEN <<>>
                     ELSE SelectSeq(Tail(flow.todo),
                                    LAMBDA n :
                                        n \notin Skipped(flow.script, name))
             failed == \/ flow.failed
                       \/ ~passes /\ flow.script = "test-vertex-cloud-setup"
         IN  flow' = [flow EXCEPT
                        !.calls = Append(@, Call(name, a)),
                        !.todo = rest,
                        !.failed = failed,
                        !.exit = IF stop # -1 THEN stop
                                 ELSE IF rest # <<>> THEN -1
                                 ELSE IF failed THEN 1
                                 ELSE 0]
    /\ FlowFrame

InitFlow == flow = NoFlow

\* ------------------------------------------ the other handlers at rest
InitAuth == auth_req = NoAuthReq /\ auth_resp = NoAuthResp /\ auth_calls = 0
InitStatus == status_req = NoStatusReq /\ status_resp = NoStatusResp
InitSide ==
    /\ InitAuth
    /\ InitStatus
    /\ fp_req = NoFp
    /\ fp_out = NoFp
    /\ InitFlow

\* ------------------------------------------------------- specifications
Methods == {"OPTIONS", "GET", "POST"}

\* one body of every class ai_proxy tells apart: falsy, a JSON object, a
\* truthy value that is no object
BodyClasses == {"falsy", "object", "list"}

\* the upstream outcomes track_usage tells apart by success and token
\* count: every answer, a failure that is logged and one that is not
TrackOutcomes ==
    {o \in UpstreamOutcomes : o.kind \in {"answer", "timeout", "http_error"}}

\* the steps of a request that is under way, its upstream call meeting
\* one of the outcomes
ContinueWith(r, outcomes) ==
    \/ CheckGet(r)
    \/ CheckSet(r)
    \/ GetKey(r)
    \/ \E o \in outcomes : Proxy(r, o)
    \/ Track(r)

\* the steps of a request that is under way
Continue(r) == ContinueWith(r, UpstreamOutcomes)

\* datetime.utcnow() counts microseconds and a call of the store takes
\* longer: a value read after an update has arrived at the store is later
\* than the value that update carries.  Two track_usage calls carry the same
\* value only when both read the clock before either update arrived.
ClockMovedOn(d) == \A i \in DOMAIN trackLog[d] : trackLog[d][i] < now

\* the steps of a request that is under way, on such a clock
ContinueClocked(r) ==
    \/ CheckGet(r)
    \/ CheckSet(r)
    \/ GetKey(r)
    \/ ClockMovedOn(dev[r]) /\ \E o \in TrackOutcomes : Proxy(r, o)
    \/ Track(r)

\* the key pools of the request-level specifications
MainPools ==
    {[k \in KeyIds |-> IF k = 1
                         THEN [present |-> TRUE, active |-> TRUE,
                               used_today |-> u, daily_quota |-> q]
                       ELSE AbsentKey] :
        <<u, q>> \in {<<3, 1000>>, <<7, 5>>}}

\* no request has reached ai_proxy
InitMain ==
    /\ now = 0
    /\ usage = [d \in Devices |-> NoDoc]
    /\ pc = [r \in Reqs |-> "idle"]
    /\ dev = [r \in Reqs |-> 1]
    /\ req_now = [r \in Reqs |-> 0]
    /\ api_key = [r \in Reqs |-> NoKey]
    /\ result = [r \in Reqs |-> NoResult]
    /\ resp = [r \in Reqs |-> NoResp]
    /\ out = [r \in Reqs |-> NoOut]
    /\ started = 0
    /\ trackLog = [d \in Devices |-> <<>>]
    /\ fwdLog = [d \in Devices |-> <<>>]

InitCommon ==
    /\ InitMain
    /\ InitSide

Init ==
    /\ InitCommon
    /\ keys \in MainPools
    /\ secrets \in {{1}, {}}

\* requests of any device handled concurrently in MaxReq slots
Next ==
    \/ /\ started < MaxStarted
       /\ \E r \in Reqs, m \in Methods, b \in BodyClasses, d \in Devices :
             Start(r, m, b, d)
    \/ \E r \in Reqs : ContinueClocked(r)
    \/ now < MaxTime /\ Tick

Spec == Init /\ [][Next]_vars

\* Spec with a backing store that may fail at any call
Fault(r) ==
    \/ CheckFault(r)
    \/ KeyFault(r)
    \/ TrackFault(r)

NextFault ==
    \/ Next
    \/ \E r \in Reqs : Fault(r)

SpecFault == Init /\ [][NextFault]_vars

\* SpecFault cut down to the requests of one fingerprint, all handled while
\* the clock shows one value
NextFaultOne ==
    \/ /\ started < FaultMaxStarted
       /\ \E r \in Reqs, m \in Methods, b \in BodyClasses :
             Start(r, m, b, 1)
    \/ \E r \in Reqs : ContinueWith(r, TrackOutcomes)
    \/ \E r \in Reqs : Fault(r)

SpecFaultOne == Init /\ [][NextFaultOne]_vars

\* the well-formed requests of one fingerprint handled strictly one after
\* another (a request that is no POST of a JSON object ends before the
\* quota check): a request starts only when no other is under way
NextSeq ==
    \/ /\ started < SeqMaxStarted
       /\ \A r \in Reqs : ~InFlight(r)
       /\ Start(1, "POST", "object", 1)
    \/ ContinueClocked(1)
    \/ now < SeqMaxTime /\ Tick

SpecSeq == Init /\ [][NextSeq]_vars

\* requests of any fingerprints that have passed the quota check at clock
\* value 0, which created the records of their fingerprints, and have got
\* the pooled key: their upstream calls and track_usage calls, concurrently
InitTrack ==
    /\ now = 0
    /\ keys \in MainPools
    /\ dev \in [Reqs -> Devices]
    /\ usage = [d \in Devices |->
                  IF \E r \in Reqs : dev[r] = d THEN NewDoc(0) ELSE NoDoc]
    /\ pc = [r \in Reqs |-> "proxy"]
    /\ req_now = [r \in Reqs |-> 0]
    /\ api_key = [r \in Reqs |-> 1]
    /\ result = [r \in Reqs |-> NoResult]
    /\ resp = [r \in Reqs |-> NoResp]
    /\ out = [r \in Reqs |->
                [Admitted(dev[r]) EXCEPT !.logged =
                    IF keys[1].used_today >= keys[1].daily_quota
                      THEN @ \o <<QuotaReached(1)>> ELSE @]]
    /\ started = MaxReq
    /\ trackLog = [d \in Devices |-> <<>>]
    /\ fwdLog = [d \in Devices |-> <<>>]
    /\ secrets = {1}
    /\ InitSide

NextTrack ==
    \/ \E r \in Reqs, o \in TrackOutcomes :
          ClockMovedOn(dev[r]) /\ Proxy(r, o)
    \/ \E r \in Reqs : Track(r)
    \/ now < TrackMaxTime /\ Tick

SpecTrack == InitTrack /\ [][NextTrack]_vars

\* the usage collection in which device 1 has the document doc and no other
\* device has one
OnlyDevice1(doc) == [d \in Devices |-> IF d = 1 THEN doc ELSE NoDoc]

\* no request anywhere, the secret of the pooled key retrievable
InitIdle ==
    /\ InitCommon
    /\ keys \in MainPools
    /\ secrets = {1}

\* a fingerprint carried to its lifetime cap.  A stored window that is not
\* empty makes every later check fail, so a record counts
\* requests_per_device requests only when that many first requests were
\* under way together.  InitLife is what a burst of requests_per_device + 1
\* first requests of fingerprint 1 leaves behind: all of them read the
\* missing document at clock value 0 (line 71), requests_per_device of them
\* created the record, got the key, made their upstream calls (every one
\* answered with success and no tokens) and read the clock in track_usage
\* before the first update arrived, and have been answered; the last one,
\* in slot 1, is held up either before its usage_ref.set() or right after
\* it, its set() having arrived before the first update.
InitLife ==
    /\ now = 0
    /\ usage =
          OnlyDevice1([NewDoc(0) EXCEPT
              !.total_requests = RATE_LIMITS.requests_per_device,
              !.successful_requests = RATE_LIMITS.requests_per_device,
              !.last_request = 0,
              !.requests_this_minute = <<0>>,
              !.requests_this_hour = <<0>>,
              !.requests_this_day = <<0>>])
    /\ pc \in {[r \in Reqs |-> IF r = 1 THEN p ELSE "idle"] :
                  p \in {"create", "getkey"}}
    /\ dev = [r \in Reqs |-> 1]
    /\ req_now = [r \in Reqs |-> 0]
    /\ api_key = [r \in Reqs |-> NoKey]
    /\ result = [r \in Reqs |-> NoResult]
    /\ resp = [r \in Reqs |-> NoResp]
    /\ out = [r \in Reqs |-> IF r = 1 THEN Admitted(1) ELSE NoOut]
    /\ started = RATE_LIMITS.requests_per_device + 1
    /\ keys \in MainPools
    /\ secrets = {1}
    /\ trackLog = [d \in Devices |->
                     IF d = 1
                       THEN [i \in 1..RATE_LIMITS.requests_per_device |-> 0]
                     ELSE <<>>]
    /\ fwdLog = [d \in Devices |->
                   IF d = 1
                     THEN [i \in 1..RATE_LIMITS.requests_per_device |->
                             [key |-> 1, used |-> keys[1].used_today]]
                   ELSE <<>>]
    /\ InitSide

\* the burst's last request and the well-formed requests of the fingerprint
\* that follow it, handled concurrently
NextLife ==
    \/ /\ started < RATE_LIMITS.requests_per_device + 1 + LifeMaxStarted
       /\ \E r \in Reqs : Start(r, "POST", "object", 1)
    \/ \E r \in Reqs : CheckGet(r)
    \/ \E r \in Reqs : CheckSet(r)
    \/ \E r \in Reqs : GetKey(r)
    \/ \E r \in Reqs :
          ClockMovedOn(dev[r]) /\ Proxy(r, [kind |-> "answer", tokens |-> 0])
    \/ \E r \in Reqs : Track(r)
    \/ now < LifeMaxTime /\ Tick

SpecLife == InitLife /\ [][NextLife]_vars

\* ---------------------------------------------- key selection alone
\* a request that has passed the quota check, over every pool and every
\* set of retrievable secrets
InitKeys ==
    /\ now = 0
    /\ usage = OnlyDevice1(NewDoc(0))
    /\ pc = [r \in Reqs |-> IF r = 1 THEN "getkey" ELSE "idle"]
    /\ dev = [r \in Reqs |-> 1]
    /\ req_now = [r \in Reqs |-> 0]
    /\ api_key = [r \in Reqs |-> NoKey]
    /\ result = [r \in Reqs |-> NoResult]
    /\ resp = [r \in Reqs |-> NoResp]
    /\ out = [r \in Reqs |-> IF r = 1 THEN Admitted(1) ELSE NoOut]
    /\ started = 1
    /\ trackLog = [d \in Devices |-> <<>>]
    /\ fwdLog = [d \in Devices |-> <<>>]
    /\ keys \in Pools
    /\ secrets \in SUBSET KeyIds
    /\ InitSide

NextKeys == GetKey(1)

SpecKeys == InitKeys /\ [][NextKeys]_vars

\* ------------------------------------------------- quota check alone
\* the documents k or fewer track_usage calls leave behind, starting from
\* the document check_rate_limits creates for a first-time user at clock
\* value 0: the calls of requests whose upstream call failed (success =
\* False, no tokens), their updates arriving in the order of their
\* timestamps, none later than QuotaMaxTime
RECURSIVE TrackedDocs(_)
TrackedDocs(k) ==
    IF k = 0 THEN {NewDoc(0)}
    ELSE LET before == TrackedDocs(k - 1)
         IN  before \cup
             UNION {{TrackUpdate(doc, FALSE, 0, t) :
                        t \in {u \in 0..QuotaMaxTime :
                                  u >= doc.last_request}} :
                    doc \in before}

\* the documents track_usage leaves behind after at most
\* requests_per_device + 1 calls
StoredDocs == TrackedDocs(PerDevice + 1)

\* a request about to read its usage document, over every stored document
InitQuota ==
    /\ now = QuotaMaxTime
    /\ usage \in {OnlyDevice1(doc) : doc \in {NoDoc} \cup StoredDocs}
    /\ pc = [r \in Reqs |-> IF r = 1 THEN "check" ELSE "idle"]
    /\ dev = [r \in Reqs |-> 1]
    /\ req_now = [r \in Reqs |-> IF r = 1 THEN QuotaMaxTime ELSE 0]
    /\ api_key = [r \in Reqs |-> NoKey]
    /\ result = [r \in Reqs |-> NoResult]
    /\ resp = [r \in Reqs |-> NoResp]
    /\ out = [r \in Reqs |-> IF r = 1 THEN Admitted(1) ELSE NoOut]
    /\ started = 1
    /\ trackLog = [d \in Devices |-> <<>>]
    /\ fwdLog = [d \in Devices |-> <<>>]
    /\ keys \in MainPools
    /\ secrets = {1}
    /\ InitSide

NextQuota ==
    \/ CheckGet(1)
    \/ CheckSet(1)

SpecQuota == InitQuota /\ [][NextQuota]_vars

\* ================================================================ claims

\* a key that may be handed out: active, with quota remaining today
Eligible(k) ==
    /\ keys[k].present
    /\ keys[k].active
    /\ keys[k].used_today < keys[k].daily_quota

\* the slots whose request has got its answer from get_next_available_key
PastKeySelection == {r \in Reqs : pc[r] = "proxy" \/
                        (pc[r] = "done" /\ resp[r].status = 503)}

\* C5 (as claimed; refuted): whenever get_next_available_key returns a key,
\* that key is active and its used_today is below its own daily_quota.
C5_ReturnedKeyIsEligible ==
    \A r \in Reqs : pc[r] = "proxy" => Eligible(api_key[r])

\* C6 (as claimed; refuted): get_next_available_key returns None exactly when
\* no key is active, below its own daily_quota and has a retrievable secret.
C6_NoneIffNoKeyQualifies ==
    \A r \in PastKeySelection :
        (pc[r] = "done") <=> ~(\E k \in KeyIds : Eligible(k) /\ k \in secrets)

\* the active keys with the smallest used_today
ActiveKeySet == {k \in KeyIds : keys[k].present /\ keys[k].active}
LeastUsedSet ==
    {k \in ActiveKeySet :
        \A j \in ActiveKeySet : keys[k].used_today <= keys[j].used_today}

\* the case C7 is about: there is an active key, and the least-used active
\* key still has quota left
LeastUsedHasQuota ==
    /\ LeastUsedSet # {}
    /\ \A k \in LeastUsedSet : keys[k].used_today < keys[k].daily_quota

\* C7 (as claimed; refuted): when the least-used active key still has quota,
\* get_next_available_key returns the secret of a least-used active key.
C7_Original ==
    \A r \in PastKeySelection :
        LeastUsedHasQuota => pc[r] = "proxy" /\ api_key[r] \in LeastUsedSet

\* C7 (amended): when the least-used active key still has quota,
\* get_next_available_key returns the secret of a least-used active key and
\* never that of a more-used key; it returns None only when Secret Manager
\* does not give out the secret of a least-used key, and always returns a key
\* when the secrets of all least-used keys can be retrieved.
C7_LeastUsedKeyChosen ==
    \A r \in PastKeySelection :
        LeastUsedHasQuota =>
            /\ pc[r] = "proxy" => api_key[r] \in LeastUsedSet \cap secrets
            /\ pc[r] = "done" => \E k \in LeastUsedSet : k \notin secrets
            /\ LeastUsedSet \subseteq secrets => pc[r] = "proxy"

\* C7 witness: two active keys of equal quota with used_today 7 and 3; the
\* key with 3 was returned.
C7_Witness ==
    /\ pc[1] = "proxy"
    /\ keys[1].present /\ keys[1].active /\ keys[1].used_today = 7
    /\ keys[2].present /\ keys[2].active /\ keys[2].used_today = 3
    /\ keys[1].daily_quota = keys[2].daily_quota
    /\ api_key[1] = 2

\* the timestamps of an array that lie after t - w
Within(arr, t, w) == {i \in DOMAIN arr : arr[i] > t - w}

\* the reason C9 prescribes for a document read at time t ("" when no
\* ceiling is met)
C9_Reason(doc, t) ==
    CASE doc.total_requests >= RATE_LIMITS.requests_per_device -> MsgLifetime
      [] /\ doc.total_requests < RATE_LIMITS.requests_per_device
         /\ Cardinality(Within(doc.requests_this_minute, t, MinuteTicks))
               >= RATE_LIMITS.requests_per_minute -> MsgMinute
      [] /\ doc.total_requests < RATE_LIMITS.requests_per_device
         /\ Cardinality(Within(doc.requests_this_minute, t, MinuteTicks))
               < RATE_LIMITS.requests_per_minute
         /\ Cardinality(Within(doc.requests_this_hour, t, HourTicks))
               >= RATE_LIMITS.requests_per_hour -> MsgHour
      [] /\ doc.total_requests < RATE_LIMITS.requests_per_device
         /\ Cardinality(Within(doc.requests_this_minute, t, MinuteTicks))
               < RATE_LIMITS.requests_per_minute
         /\ Cardinality(Within(doc.requests_this_hour, t, HourTicks))
               < RATE_LIMITS.requests_per_hour
         /\ Cardinality(Within(doc.requests_this_day, t, DayTicks))
               >= RATE_LIMITS.requests_per_day -> MsgDay
      [] OTHER -> ""

\* C9 (as claimed; refuted): on an existing usage record check_rate_limits
\* reports the first ceiling met in the order lifetime, per-minute, per-hour,
\* per-day, allows the request iff none is met, and the four reasons are
\* pairwise distinct.
\* (In SpecQuota the clock and the record stand still after the check.)
C9_FirstLimitWins ==
    \A r \in Reqs :
        (usage[dev[r]].exists /\ pc[r] \in {"getkey", "done"}) =>
            LET want == C9_Reason(usage[dev[r]], now)
            IN  /\ pc[r] = "getkey" <=> want = ""
                /\ pc[r] = "done" =>
                      resp[r] = [status |-> 429, message |-> want]
                /\ Cardinality({MsgLifetime, MsgMinute, MsgHour, MsgDay}) = 4

\* the track_usage calls of device d stamped after t - MinuteTicks
TrackedInMinute(d, t) == {i \in DOMAIN trackLog[d] : trackLog[d][i] > t - MinuteTicks}

\* slot r leaves check_rate_limits' evaluation of an existing record in this
\* step
Evaluated(r) == pc[r] = "check" /\ usage[dev[r]].exists /\ pc'[r] # "check"

DeniedWith(r, message) ==
    pc'[r] = "done" /\ resp'[r] = [status |-> 429, message |-> message]

\* C1 (as claimed; refuted): with requests handled one after another,
\* check_rate_limits denies with the per-minute reason exactly when at least
\* requests_per_minute track_usage calls of the fingerprint are stamped
\* within the last minute and fewer than requests_per_device calls were made
\* in all; so the request after requests_per_minute recorded ones in a
\* minute is denied, and a request that finds fewer than requests_per_minute
\* recorded in the last minute, no other ceiling being met (fewer than
\* requests_per_hour recorded in all), is allowed.
C1_MinuteLimitSequential ==
    [][\A r \in Reqs :
          Evaluated(r) =>
              /\ DeniedWith(r, MsgMinute) <=>
                    /\ Cardinality(TrackedInMinute(dev[r], req_now[r]))
                          >= RATE_LIMITS.requests_per_minute
                    /\ Len(trackLog[dev[r]])
                          < RATE_LIMITS.requests_per_device
              /\ (/\ Cardinality(TrackedInMinute(dev[r], req_now[r]))
                        < RATE_LIMITS.requests_per_minute
                  /\ Len(trackLog[dev[r]]) < RATE_LIMITS.requests_per_hour)
                    => pc'[r] = "getkey"]_vars

\* C2 (as claimed; refuted): for every fingerprint and every minute-long
\* window, at most requests_per_minute admitted requests have their recorded
\* timestamp inside the window.
C2_MinuteCeilingHolds ==
    \A d \in Devices : \A t \in 0..now :
        Cardinality({i \in DOMAIN trackLog[d] :
                        trackLog[d][i] > t - MinuteTicks /\ trackLog[d][i] <= t})
            <= RATE_LIMITS.requests_per_minute

\* C3 (as claimed; refuted): no step makes a fingerprint's total_requests
\* smaller.
C3_TotalNonDecreasing ==
    [][\A d \in Devices :
          usage'[d].total_requests >= usage[d].total_requests]_vars

\* C4 (as claimed; refuted): once no request is under way, total_requests
\* equals the number of track_usage calls made for the fingerprint.
C4_NoLostUpdate ==
    (\A r \in Reqs : ~InFlight(r)) =>
        \A d \in Devices : usage[d].total_requests = Len(trackLog[d])

\* C8 (as claimed; refuted): once the request that made an upstream call with
\* key k has finished, k's used_today is greater than it was at the call.
C8_KeyUseCounted ==
    (\A r \in Reqs : ~InFlight(r)) =>
        \A d \in Devices : \A i \in DOMAIN fwdLog[d] :
            keys[fwdLog[d][i].key].used_today >= fwdLog[d][i].used + 1

\* C10 (as claimed; refuted): once track_usage has been called
\* requests_per_device times for a fingerprint, every later evaluation of
\* check_rate_limits for it denies with the lifetime reason.
C10_LifetimeDenial ==
    [][\A r \in Reqs :
          (/\ pc[r] = "check"
           /\ pc'[r] # "check"
           /\ Len(trackLog[dev[r]]) >= RATE_LIMITS.requests_per_device)
          => DeniedWith(r, MsgLifetime)]_vars

\* the fingerprint d is in LIMIT_REACHED
LimitReached(d) ==
    usage[d].exists
    /\ usage[d].total_requests >= RATE_LIMITS.requests_per_device

\* C11 (as claimed; refuted): LIMIT_REACHED is terminal.  Once a
\* fingerprint's total_requests has met requests_per_device it stays so in
\* every later state, and every quota check evaluated from then on denies
\* with the lifetime reason, so that no key is issued and nothing forwarded.
C11_LimitReachedTerminal ==
    [][\A d \in Devices :
          LimitReached(d) =>
              /\ LimitReached(d)'
              /\ \A r \in Reqs :
                    (dev[r] = d /\ pc[r] = "check" /\ pc'[r] # "check")
                        => DeniedWith(r, MsgLifetime)]_vars

\* ------------------------------------- quota checks without track_usage
\* requests of one fingerprint over every stored document, with no secret
\* retrievable: each request passes through check_rate_limits and, when
\* allowed, ends at the missing key, so track_usage is never called
InitCheck ==
    /\ now = QuotaMaxTime
    /\ usage \in {OnlyDevice1(doc) : doc \in {NoDoc} \cup StoredDocs}
    /\ pc = [r \in Reqs |-> "idle"]
    /\ dev = [r \in Reqs |-> 1]
    /\ req_now = [r \in Reqs |-> 0]
    /\ api_key = [r \in Reqs |-> NoKey]
    /\ result = [r \in Reqs |-> NoResult]
    /\ resp = [r \in Reqs |-> NoResp]
    /\ out = [r \in Reqs |-> NoOut]
    /\ started = 0
    /\ trackLog = [d \in Devices |-> <<>>]
    /\ fwdLog = [d \in Devices |-> <<>>]
    /\ keys \in MainPools
    /\ secrets = {}
    /\ InitSide

NextCheck ==
    \/ /\ started < CheckMaxStarted
       /\ \E r \in Reqs : Start(r, "POST", "object", 1)
    \/ \E r \in Reqs : CheckGet(r)
    \/ \E r \in Reqs : CheckSet(r)
    \/ \E r \in Reqs : GetKey(r)
    \/ now < CheckMaxTime /\ Tick

SpecCheck == InitCheck /\ [][NextCheck]_vars

\* the part of a usage record C12 speaks of
QuotaState(doc) ==
    <<doc.exists, doc.total_requests, doc.requests_this_minute,
      doc.requests_this_hour, doc.requests_this_day>>

\* C12 (as claimed; refuted): no step of check_rate_limits changes the
\* existence of a fingerprint's record, its total_requests or its three
\* window arrays, whether or not the fingerprint had a record.
C12_Original ==
    [][\A d \in Devices : QuotaState(usage'[d]) = QuotaState(usage[d])]_vars

\* C12 (amended): check_rate_limits never changes total_requests or a window
\* array of a record that exists and never removes a record; for a
\* fingerprint without a record the call writes a record with total_requests
\* 0 and empty windows, which further calls leave as it is.
C12_CheckKeepsRecord ==
    [][\A d \in Devices :
          /\ usage[d].exists => QuotaState(usage'[d]) = QuotaState(usage[d])
          /\ (~usage[d].exists /\ usage'[d].exists) =>
                /\ QuotaState(usage'[d]) = <<TRUE, 0, <<>>, <<>>, <<>>>>
                /\ \E r \in Reqs : pc[r] = "create" /\ dev[r] = d]_vars

\* C12 witness: CheckMaxStarted calls were made for a fingerprint that had
\* no record; the record the first call wrote is still zeroed.
C12_Witness ==
    /\ started = CheckMaxStarted
    /\ \A r \in Reqs : ~InFlight(r)
    /\ usage[1].created_at >= QuotaMaxTime
    /\ QuotaState(usage[1]) = <<TRUE, 0, <<>>, <<>>, <<>>>>

\* the reasons of the three window limits
WindowMsgs == {MsgMinute, MsgHour, MsgDay}

\* what get_device_status reports for device d over the collection coll
Reported(coll, d) ==
    get_device_status([method |-> "GET", resolvable |-> TRUE,
                       store_ok |-> TRUE, device |-> d], coll)

\* every window of the record, read at time t, is below its ceiling
WindowsBelow(doc, t) ==
    /\ Cardinality(Within(doc.requests_this_minute, t, MinuteTicks))
          < RATE_LIMITS.requests_per_minute
    /\ Cardinality(Within(doc.requests_this_hour, t, HourTicks))
          < RATE_LIMITS.requests_per_hour
    /\ Cardinality(Within(doc.requests_this_day, t, DayTicks))
          < RATE_LIMITS.requests_per_day

\* C13 (as claimed; refuted): a denial for a per-minute, per-hour or per-day
\* limit leaves the device state as it was: the step that answers 429 with
\* one of these reasons changes no usage record (total_requests, the stored
\* windows) and nothing get_device_status reports; and the denial is
\* transient: a record under its lifetime cap is allowed as soon as the
\* timestamps still inside each window are fewer than the window's ceiling.
C13_WindowDenialTransient ==
    [][\A r \in Reqs :
          /\ (pc[r] = "check" /\ \E m \in WindowMsgs : DeniedWith(r, m)) =>
                /\ usage' = usage
                /\ \A d \in Devices : Reported(usage', d) = Reported(usage, d)
          /\ (/\ Evaluated(r)
              /\ usage[dev[r]].total_requests < RATE_LIMITS.requests_per_device
              /\ WindowsBelow(usage[dev[r]], req_now[r]))
                => pc'[r] = "getkey"]_vars

\* C14: the vendor fails closed.  A step in which usage_ref.get() or
\* usage_ref.set() raises ends the request with a 429 answer carrying
\* "Service error"; the request holds no key, no upstream call is made and
\* no record is written; and a request that is past check_rate_limits always
\* has a usage record that was read or created.
C14_FailClosed ==
    /\ [](\A r \in Reqs :
            pc[r] \in {"getkey", "fallback", "secret", "proxy", "track"}
                => usage[dev[r]].exists)
    /\ [][\A r \in Reqs :
            CheckFault(r) =>
                /\ pc'[r] = "done"
                /\ resp'[r] = [status |-> 429, message |-> MsgService]
                /\ resp'[r].status # 200
                /\ api_key'[r] = NoKey
                /\ fwdLog' = fwdLog
                /\ usage' = usage]_vars

\* C14 witness: the read of a first-time fingerprint's record failed; the
\* request was answered 429 "Service error", no record exists and no
\* upstream call was made for the fingerprint.
C14_Witness ==
    \E r \in Reqs :
        /\ pc[r] = "done"
        /\ resp[r] = [status |-> 429, message |-> MsgService]
        /\ ~usage[dev[r]].exists
        /\ fwdLog[dev[r]] = <<>>

\* slot r's request is answered with this status in this step
Answered(r, status) ==
    InFlight(r) /\ pc'[r] = "done" /\ resp'[r].status = status

\* C15: key exhaustion and quota denial are told apart.  A request is
\* answered 429 exactly in the steps in which check_rate_limits returns
\* not-allowed, and 503 with 'Service temporarily unavailable' exactly in
\* the steps in which the request, allowed by the quota check, gets None
\* from get_next_available_key; so a missing key is never answered 429 and
\* a quota denial never 503.
C15_DenialAndExhaustionDistinct ==
    [][\A r \in Reqs :
          /\ Answered(r, 429) <=>
                (pc[r] \in {"check", "create"} /\ pc'[r] = "done")
          /\ Answered(r, 503) <=> (GetKey(r) /\ pc'[r] = "done")
          /\ Answered(r, 503) =>
                /\ resp'[r].message = "Service temporarily unavailable"
                /\ get_next_available_key(keys, secrets) = NoKey
          /\ (pc[r] = "secret" /\ pc'[r] = "proxy") =>
                api_key'[r] = get_next_available_key(keys, secrets)
          /\ (pc[r] \in {"getkey", "fallback", "secret"} /\ pc'[r] = "done")
                => resp'[r].status \in {503, 500}]_vars

\* C15 witness: with no secret retrievable, a request of a fingerprint whose
\* record exists passed the quota check and was answered 503.
C15_Witness ==
    \E r \in Reqs :
        /\ pc[r] = "done"
        /\ resp[r] = [status |-> 503,
                      message |-> "Service temporarily unavailable"]
        /\ usage[dev[r]].exists
        /\ secrets = {}

\* slot r's request makes its track_usage call in this step
TrackStep(r) == pc[r] = "track" /\ pc'[r] = "done"

\* the array new is old with the timestamp t in it: old's elements keep
\* their places, and t is appended unless old already held it
WithTimestamp(old, new, t) ==
    /\ Range(new) = Range(old) \cup {t}
    /\ Len(new) >= Len(old)
    /\ \A i \in DOMAIN old : new[i] = old[i]

\* C16: one track_usage(device, success, tokens) call on an existing record
\* adds 1 to total_requests, 1 to successful_requests iff success, tokens to
\* total_tokens, sets last_request to the time the call read when it began,
\* puts that timestamp into each of the three window arrays, keeps the rest
\* of the record, and changes no other fingerprint's record and no
\* pooled-key record.
C16_TrackUsageEffect ==
    [][\A r \in Reqs :
          (TrackStep(r) /\ usage[dev[r]].exists) =>
              LET old == usage[dev[r]]
                  new == usage'[dev[r]]
              IN  /\ new.total_requests = old.total_requests + 1
                  /\ new.successful_requests = old.successful_requests
                        + (IF result[r].success THEN 1 ELSE 0)
                  /\ new.total_tokens = old.total_tokens + result[r].tokens_used
                  /\ new.last_request = req_now[r]
                  /\ WithTimestamp(old.requests_this_minute,
                                   new.requests_this_minute, req_now[r])
                  /\ WithTimestamp(old.requests_this_hour,
                                   new.requests_this_hour, req_now[r])
                  /\ WithTimestamp(old.requests_this_day,
                                   new.requests_this_day, req_now[r])
                  /\ new.exists /\ new.created_at = old.created_at
                  /\ \A e \in Devices \ {dev[r]} : usage'[e] = usage[e]
                  /\ keys' = keys
                  /\ req_now[r] <= now]_vars

\* C16 witness: a failed request of device 1 and a successful one of device
\* 2 that used MaxTokens tokens have both been recorded.
C16_Witness ==
    /\ \A r \in Reqs : ~InFlight(r)
    /\ usage[1].total_requests = 1 /\ usage[1].successful_requests = 0
    /\ usage[2].total_requests = 1 /\ usage[2].successful_requests = 1
    /\ usage[2].total_tokens = MaxTokens
    /\ usage[2].requests_this_minute = <<usage[2].last_request>>

\* the timestamps of an array younger than w at time t
YoungerThan(arr, t, w) == {i \in DOMAIN arr : t - arr[i] < w}

\* C17 (as claimed; refuted): the windows are pruned at read time.
\* check_rate_limits counts a
\* stored timestamp in the minute (hour, day) window iff its age is below
\* one minute (hour, day): on a record under its lifetime cap it denies with
\* the per-minute reason iff at least requests_per_minute stored timestamps
\* are younger than a minute, a timestamp exactly one minute old or older
\* not counting, and allows iff every window's count of younger timestamps
\* is below its ceiling.
\* (In SpecQuota the clock and the record stand still after the check.)
C17_WindowsPrunedAtRead ==
    \A r \in Reqs :
        (/\ usage[dev[r]].exists
         /\ pc[r] \in {"getkey", "done"}
         /\ usage[dev[r]].total_requests < RATE_LIMITS.requests_per_device) =>
            LET doc == usage[dev[r]]
                perMinute ==
                    Cardinality(YoungerThan(doc.requests_this_minute, now,
                                            MinuteTicks))
                perHour ==
                    Cardinality(YoungerThan(doc.requests_this_hour, now,
                                            HourTicks))
                perDay ==
                    Cardinality(YoungerThan(doc.requests_this_day, now,
                                            DayTicks))
            IN  /\ (pc[r] = "done" /\ resp[r].message = MsgMinute)
                      <=> perMinute >= RATE_LIMITS.requests_per_minute
                /\ pc[r] = "getkey"
                      <=> /\ perMinute < RATE_LIMITS.requests_per_minute
                          /\ perHour < RATE_LIMITS.requests_per_hour
                          /\ perDay < RATE_LIMITS.requests_per_day

\* ------------------------------------------- device_authenticator alone
NextAuth == \E q \in AuthRequests : DeviceAuthenticator(q)

SpecAuth == InitIdle /\ [][NextAuth]_vars

\* a device_id the claim calls missing or empty: absent, "" or 0
EmptyId(v) == v = DevIdMissing \/ v = DevIdStr("") \/ v = DevIdInt(0)

\* the body carries a JSON object with a non-empty device_id
HasDeviceId(body) == body.kind = "object" /\ ~EmptyId(body.device_id)

\* C18 (as claimed; refuted): with the SDK initialised, every non-POST
\* request is answered 405, a POST without a JSON body or without a
\* non-empty device_id 400, a POST with a non-empty device_id 200 with a
\* token when signing succeeds and 500 when it raises, and a token comes
\* only with 200.
C18_Original ==
    (auth_req # NoAuthReq /\ auth_req.sdk) =>
        /\ auth_req.method # "POST" => auth_resp.status = 405
        /\ (auth_req.method = "POST" /\ ~HasDeviceId(auth_req.body))
              => auth_resp.status = 400
        /\ (auth_req.method = "POST" /\ HasDeviceId(auth_req.body)) =>
              /\ auth_req.signing = "ok" =>
                    auth_resp.status = 200 /\ auth_resp.token # ""
              /\ auth_req.signing = "raises" => auth_resp.status = 500
        /\ auth_resp.token # "" => auth_resp.status = 200

\* ---------------------------------------------- get_device_status alone
\* status requests and quota checks over every stored document
NextStatus ==
    \/ \E q \in StatusRequests : GetDeviceStatus(q)
    \/ CheckGet(1)
    \/ CheckSet(1)

SpecStatus == InitQuota /\ [][NextStatus]_vars

\* get_device_status answers a request in this step
StatusStep == <<status_req, status_resp>>' # <<status_req, status_resp>>

\* C19: get_device_status reports NEW -> ACTIVE -> LIMIT_REACHED as the
\* quota check sees it.  Its answer to a well-formed request has status
\* 'new' iff the fingerprint has no usage record, 'active' iff the record has
\* total_requests < requests_per_device, 'limit_reached' iff
\* check_rate_limits denies the record with the lifetime reason;
\* requests_used is total_requests, requests_remaining is
\* max(0, requests_per_device - total_requests) and never negative; and the
\* step changes no usage record and no key record.
C19_StatusMatchesQuota ==
    [][StatusStep =>
          LET q == status_req'
              a == status_resp'
              doc == usage[q.device]
          IN  /\ usage' = usage /\ keys' = keys
              /\ (q.method # "OPTIONS" /\ q.resolvable /\ q.store_ok) =>
                    /\ a.code = 200
                    /\ a.status \in {"new", "active", "limit_reached"}
                    /\ a.status = "new" <=> ~doc.exists
                    /\ a.status = "active" <=>
                          /\ doc.exists
                          /\ doc.total_requests
                                < RATE_LIMITS.requests_per_device
                    /\ a.status = "limit_reached" <=>
                          /\ doc.exists
                          /\ CheckLimits(doc, now)
                                = [allowed |-> FALSE, message |-> MsgLifetime]
                    /\ a.requests_used = doc.total_requests
                    /\ a.requests_remaining >= 0
                    /\ a.requests_remaining + doc.total_requests
                          >= RATE_LIMITS.requests_per_device
                    /\ (a.requests_remaining = 0
                        \/ a.requests_remaining + doc.total_requests
                              = RATE_LIMITS.requests_per_device)]_vars

\* C19 witness: a record whose total_requests has passed requests_per_device
\* is reported limit_reached with requests_remaining 0.
C19_Witness ==
    /\ status_resp.code = 200
    /\ status_resp.status = "limit_reached"
    /\ status_resp.requests_used > RATE_LIMITS.requests_per_device
    /\ status_resp.requests_remaining = 0
    /\ usage[status_req.device].total_requests = status_resp.requests_used

\* --------------------------------------------- generate_device_id alone
\* two requests about to be given their device ids
InitFp ==
    /\ InitMain
    /\ keys \in MainPools
    /\ secrets = {1}
    /\ InitAuth
    /\ InitStatus
    /\ InitFlow
    /\ fp_req \in FpRequests \X FpRequests
    /\ fp_out = NoFp

NextFp == GenerateDeviceIds

SpecFp == InitFp /\ [][NextFp]_vars

\* the three inputs of a request: the source IP the function sees (the
\* X-Forwarded-For header when there is one), the User-Agent (empty when
\* there is none) and device_info as a JSON object, whatever the order of
\* its members (empty when there is none)
SourceIp(q) == IF q.xff = Absent THEN q.remote_addr ELSE q.xff
UserAgent(q) == IF q.user_agent = Absent THEN "" ELSE q.user_agent
DeviceInfo(q) == IF q.has_info THEN Range(q.device_info) ELSE {}

\* the inputs in which two requests differ
Differing(a, b) ==
    {i \in {"ip", "user_agent", "device_info"} :
        \/ i = "ip" /\ SourceIp(a) # SourceIp(b)
        \/ i = "user_agent" /\ UserAgent(a) # UserAgent(b)
        \/ i = "device_info" /\ DeviceInfo(a) # DeviceInfo(b)}

\* C20: generate_device_id is deterministic and input-sensitive.  Two
\* requests with the same source IP, User-Agent and device_info get the same
\* device id, in whatever order device_info lists its members, and two
\* requests that differ in exactly one of the three get different device ids
\* (the hash taken as free of collisions).
C20_FingerprintDeterministic ==
    fp_out # NoFp =>
        /\ Differing(fp_req[1], fp_req[2]) = {} => fp_out[1] = fp_out[2]
        /\ Cardinality(Differing(fp_req[1], fp_req[2])) = 1
              => fp_out[1] # fp_out[2]

\* C20 witness: two requests with the same IP and User-Agent whose
\* device_info lists the same two members in opposite orders got the same
\* device id.
C20_Witness ==
    /\ fp_out # NoFp
    /\ Differing(fp_req[1], fp_req[2]) = {}
    /\ Len(fp_req[1].device_info) = 2
    /\ fp_req[1].device_info # fp_req[2].device_info
    /\ fp_out[1] = fp_out[2]

\* --------------------------------------------- responses and log lines
\* the clock value at which the requests of SpecObserved arrive
ObsNow == QuotaMaxTime

\* the ticks a..b, in order
Run(a, b) == [i \in 1..(b - a + 1) |-> a + i - 1]

\* runs of at most requests_per_day ticks ending in the last minute
ObsRuns ==
    {p \in (0..(ObsNow + 1)) \X ((ObsNow - MinuteTicks)..ObsNow) :
        p[1] <= p[2] + 1 /\ p[2] - p[1] + 1 <= PerDay}

\* usage records a request may find: none, one at the lifetime
\* ceiling, and records whose windows hold a run of ticks
ObsDocs ==
    {NoDoc, [NewDoc(0) EXCEPT !.total_requests = PerDevice]}
    \cup {[NewDoc(0) EXCEPT
              !.total_requests = Len(Run(p[1], p[2])),
              !.last_request = IF p[1] > p[2] THEN -1 ELSE p[2],
              !.requests_this_minute = Run(p[1], p[2]),
              !.requests_this_hour = Run(p[1], p[2]),
              !.requests_this_day = Run(p[1], p[2])] : p \in ObsRuns}

\* key pools a request may find: none, one key with quota left,
\* one key past its daily quota
ObsPools ==
    {[k \in KeyIds |-> AbsentKey],
     [k \in KeyIds |-> IF k = 1
                         THEN [present |-> TRUE, active |-> TRUE,
                               used_today |-> 3, daily_quota |-> 1000]
                       ELSE AbsentKey],
     [k \in KeyIds |-> IF k = 1
                         THEN [present |-> TRUE, active |-> TRUE,
                               used_today |-> 7, daily_quota |-> 5]
                       ELSE AbsentKey]}

ObsStatusRequests ==
    {q \in StatusRequests : q.method = "GET" /\ q.resolvable /\ q.device = 1}

\* requests of one fingerprint meeting every usage record, key pool and set
\* of retrievable secrets, while get_device_status is asked for the record
InitObserved ==
    /\ now = ObsNow
    /\ usage \in {OnlyDevice1(doc) : doc \in ObsDocs}
    /\ pc = [r \in Reqs |-> "idle"]
    /\ dev = [r \in Reqs |-> 1]
    /\ req_now = [r \in Reqs |-> 0]
    /\ api_key = [r \in Reqs |-> NoKey]
    /\ result = [r \in Reqs |-> NoResult]
    /\ resp = [r \in Reqs |-> NoResp]
    /\ out = [r \in Reqs |-> NoOut]
    /\ started = 0
    /\ trackLog = [d \in Devices |-> <<>>]
    /\ fwdLog = [d \in Devices |-> <<>>]
    /\ keys \in ObsPools
    /\ secrets \in {{1}, {}}
    /\ InitSide

NextObserved ==
    \/ /\ started < ObsMaxStarted
       /\ \E r \in Reqs, m \in Methods, b \in Bodies : Start(r, m, b, 1)
    \/ \E r \in Reqs : Continue(r)
    \/ \E r \in Reqs : Fault(r)
    \/ \E q \in ObsStatusRequests : GetDeviceStatus(q)

SpecObserved == InitObserved /\ [][NextObserved]_vars

\* C21: no response carries the pooled key.  For every request to ai_proxy
\* and everything it meets (method, body, usage record, store failures, key
\* pool, upstream answer or failure), the body of the response reads the
\* same whatever value the secret has, and no value of the secret is a piece
\* of it, on every path (204, 405, 400, 429, 503, 500, 200); the answers of
\* get_device_status carry no value of the secret either.
C21_ResponsesHideSecret ==
    /\ \A r \in Reqs : \A m1, m2 \in Materials :
          /\ Rendered(out[r].body, m1) = Rendered(out[r].body, m2)
          /\ ~Contains(Rendered(out[r].body, m1), m2)
    /\ \A m \in Materials : status_resp.error # m /\ status_resp.status # m

\* C21 witness: a request that was forwarded under the secret and whose
\* upstream call failed with an exception that names the url has been
\* answered 500, and get_device_status has answered too.
C21_Witness ==
    /\ \E r \in Reqs :
          /\ pc[r] = "done"
          /\ resp[r].status = 500
          /\ Contains(out[r].body, "API request failed")
          /\ \E i \in 1..Len(out[r].logged) :
                 Contains(out[r].logged[i], SecretOf(1))
    /\ status_resp.code = 200

\* C22: no log line of ai_proxy carries the pooled key: for every request
\* and every value of the secret, the value is a piece of none of the lines
\* logged, also when the upstream call made with '...?key=<api_key>' fails
\* and proxy_to_gemini logs the text of the exception.
C22_LogsHideSecret ==
    \A r \in Reqs : \A m \in Materials :
        \A i \in 1..Len(out[r].logged) :
            ~Contains(Rendered(out[r].logged[i], m), m)

\* ------------------------------------------------------------ no retries
\* well-formed requests to device_authenticator: they reach the signing call
SigningRequests ==
    {q \in AuthRequests : /\ q.sdk
                          /\ q.method = "POST"
                          /\ q.body.kind = "object"
                          /\ q.body.device_id = DevIdStr("cam-1")}

NextRetry ==
    \/ /\ started < RetryMaxStarted
       /\ \E r \in Reqs, m \in Methods, b \in BodyClasses :
             Start(r, m, b, 1)
    \/ \E r \in Reqs : Continue(r)
    \/ \E r \in Reqs : Fault(r)
    \/ \E q \in SigningRequests : DeviceAuthenticator(q)

SpecRetry == Init /\ [][NextRetry]_vars

\* C23: the core retries nothing.  An upstream call is made only by the
\* step of a request that leaves proxy_to_gemini, one call per step; from
\* there the request's next step ends it, with no further upstream call:
\* with 500 and the error proxy_to_gemini returned when the call timed out
\* or failed, with 200 when it succeeded, and this also when the usage
\* store fails; device_authenticator makes at most one signing call for a
\* request, and a signing call that raises is answered 500.
C23_NoRetries ==
    [][/\ \A d \in Devices :
            \/ fwdLog'[d] = fwdLog[d]
            \/ /\ Len(fwdLog'[d]) = Len(fwdLog[d]) + 1
               /\ \E r \in Reqs : /\ dev[r] = d
                                  /\ pc[r] = "proxy"
                                  /\ pc'[r] = "track"
       /\ \A r \in Reqs :
            (pc[r] = "track" /\ pc'[r] # "track") =>
                /\ pc'[r] = "done"
                /\ fwdLog' = fwdLog
                /\ resp'[r].status = IF result[r].success THEN 200 ELSE 500
                /\ ~result[r].success => resp'[r].message = result[r].error[1]
       /\ auth_calls' <= 1
       /\ (auth_req'.signing = "raises" /\ auth_calls' = 1) =>
             auth_resp'.status = 500]_vars

\* C23 witness: a request whose one upstream call timed out is answered
\* 500 'Request timeout', and a signing call that raised is answered 500.
C23_Witness ==
    /\ \E r \in Reqs : /\ pc[r] = "done"
                       /\ resp[r] = [status |-> 500,
                                     message |-> "Request timeout"]
                       /\ Len(fwdLog[dev[r]]) = 1
    /\ auth_req.signing = "raises"
    /\ auth_calls = 1
    /\ auth_resp.status = 500

\* ------------------------------------------------- the identity exchange
NextFlow ==
    \/ \E script \in Scripts : FlowStart(script)
    \/ \E a \in CallAnswers : FlowHop(a)
    \/ \E a \in CallAnswers : FlowUse(a)

SpecFlow == InitIdle /\ [][NextFlow]_vars

\* the i-th call of the run is the hop h
IsHop(i, h) == flow.calls[i].name = Hops[h]

\* the i-th call of the run is a use of the database, the storage or the
\* AI API
IsUse(i) ==
    flow.calls[i].name \in
        {"firestore-device", "firestore-session", "firestore-event",
         "firestore-read", "read-session", "read-event", "firestore-delete",
         "delete-event", "delete-session", "delete-device", "storage-list",
         "storage-upload", "storage-delete", "vertex-ai"}

\* the i-th call was answered with the token asked for
Obtained(i) == flow.calls[i].token /\ flow.calls[i].status < 400

\* the order of the calls, with `ok` the statuses hop 1 may have been
\* answered with before hop 2 is attempted
ExchangeOrdered(ok) ==
    \A i \in 1..Len(flow.calls) :
        /\ IsHop(i, 2) =>
              \E j \in 1..(i - 1) : /\ IsHop(j, 1)
                                    /\ Obtained(j)
                                    /\ flow.calls[j].status \in ok
        /\ IsHop(i, 3) => \E j \in 1..(i - 1) : IsHop(j, 2) /\ Obtained(j)
        /\ IsUse(i) => \E j \in 1..(i - 1) : IsHop(j, 3) /\ Obtained(j)
        /\ ((\E h \in 1..Len(Hops) : IsHop(i, h)) /\ ~Obtained(i)) =>
              /\ i = Len(flow.calls)
              /\ flow.exit > 0

\* C24 (as claimed; refuted): in every run of a flow script the ID-token
\* exchange is attempted only after a custom token was obtained with status
\* 200, the access-token vend only after an ID token was obtained, every
\* use of the database or the AI API only after an access token was
\* obtained; after a failed hop no call is made and the script exits
\* non-zero.
C24_Original == ExchangeOrdered({200})

\* ------------------------------------------------- the order of the steps
NextOrder ==
    \/ /\ started < OrderMaxStarted
       /\ \E r \in Reqs, m \in Methods, b \in BodyClasses :
             Start(r, m, b, 1)
    \/ \E r \in Reqs : Continue(r)
    \/ \E r \in Reqs : Fault(r)

SpecOrder == Init /\ [][NextOrder]_vars

\* the slot r takes a step of its request
Moves(r) == pc'[r] # pc[r] \/ (pc[r] = "done" /\ started' # started)

\* upstream calls made for the fingerprint d and not yet followed by
\* track_usage
AwaitingTrack(d) == {r \in Reqs : dev[r] = d /\ pc[r] = "track"}

\* C25: within one ai_proxy request the steps come in the order validate,
\* fingerprint, quota check, key selection, upstream call, usage tracking.
\* The quota check starts only from a validated POST; key selection is
\* reached only from a quota check that found no record (first-time user)
\* or whose check_rate_limits allowed the record; the upstream call only
\* from a key selection that returned a key; track_usage only after the
\* upstream call, once: every upstream call of a fingerprint is matched by
\* one track_usage call or by a request standing right before it, and a
\* request ending with 204, 405, 400, 429 or 503 makes no track_usage call.
C25_StepOrder ==
    /\ [](\A d \in Devices :
             Len(fwdLog[d]) = Len(trackLog[d]) + Cardinality(AwaitingTrack(d)))
    /\ [][\A r \in Reqs :
            /\ (Moves(r) /\ pc'[r] = "check") => pc[r] \in {"idle", "done"}
            /\ (Moves(r) /\ pc'[r] = "create") =>
                  pc[r] = "check" /\ ~usage[dev[r]].exists
            /\ (Moves(r) /\ pc'[r] = "getkey") =>
                  \/ pc[r] = "create"
                  \/ /\ pc[r] = "check"
                     /\ usage[dev[r]].exists
                     /\ CheckLimits(usage[dev[r]], req_now[r]).allowed
            /\ (Moves(r) /\ pc'[r] = "fallback") => pc[r] = "getkey"
            /\ (Moves(r) /\ pc'[r] = "secret") =>
                  pc[r] \in {"getkey", "fallback"}
            /\ (Moves(r) /\ pc'[r] = "proxy") =>
                  /\ pc[r] = "secret"
                  /\ api_key'[r] # NoKey
                  /\ api_key'[r] = get_next_available_key(keys, secrets)
            /\ (Moves(r) /\ pc'[r] = "track") =>
                  /\ pc[r] = "proxy"
                  /\ Len(fwdLog'[dev[r]]) = Len(fwdLog[dev[r]]) + 1
                  /\ trackLog' = trackLog
            /\ (Moves(r) /\ pc[r] = "track") =>
                  /\ pc'[r] = "done"
                  /\ resp'[r].status \in {200, 500}
                  /\ Len(trackLog'[dev[r]]) = Len(trackLog[dev[r]]) + 1
            /\ (Moves(r) /\ pc'[r] = "done"
                /\ resp'[r].status \in {204, 405, 400, 429, 503}) =>
                  /\ pc[r] \in {"idle", "done", "check", "create", "getkey",
                              "fallback", "secret"}
                  /\ trackLog' = trackLog
                  /\ fwdLog' = fwdLog]_vars

\* C25 witness: one request was denied by the quota check and another of
\* the same fingerprint made its upstream call and its track_usage call.
C25_Witness ==
    /\ \E r \in Reqs : pc[r] = "done" /\ resp[r].status = 429
    /\ \E r \in Reqs : pc[r] = "done" /\ resp[r].status = 200
    /\ Len(fwdLog[1]) = 1
    /\ Len(trackLog[1]) = 1

\* ------------------------------------------------ failed requests count
\* C26: in every reachable state every usage record has
\* successful_requests <= total_requests; and the track_usage call of a
\* request whose upstream call failed (timeout or error, answered 500)
\* adds one to total_requests and one entry to each of the three windows
\* and leaves successful_requests unchanged.
C26_FailedRequestsCount ==
    /\ [](\A d \in Devices :
             usage[d].successful_requests <= usage[d].total_requests)
    /\ [][\A r \in Reqs :
            (pc[r] = "track" /\ pc'[r] = "done" /\ ~result[r].success) =>
                LET old == usage[dev[r]]
                    new == usage'[dev[r]]
                IN  /\ resp'[r].status = 500
                    /\ new.total_requests = old.total_requests + 1
                    /\ new.successful_requests = old.successful_requests
                    /\ Len(new.requests_this_minute)
                          = Len(old.requests_this_minute) + 1
                    /\ Len(new.requests_this_hour)
                          = Len(old.requests_this_hour) + 1
                    /\ Len(new.requests_this_day)
                          = Len(old.requests_this_day) + 1]_vars

\* -------------------------------------------------------- metered service
\* C27: no request is served unmetered.  The step that answers a request
\* with 200 has added one to the total_requests of its fingerprint, also
\* when the usage-store update inside track_usage raises.
C27_ServedIsCounted ==
    [][\A r \in Reqs :
          (pc[r] = "track" /\ pc'[r] = "done" /\ resp'[r].status = 200) =>
              usage'[dev[r]].total_requests
                 = usage[dev[r]].total_requests + 1]_vars

\* C28: the lifetime cap bounds the service of a fingerprint.  In every
\* interleaving of its requests, the upstream calls made for a fingerprint
\* and its total_requests never exceed requests_per_device.
C28_LifetimeCapBounds ==
    \A d \in Devices :
        /\ Len(fwdLog[d]) <= RATE_LIMITS.requests_per_device
        /\ usage[d].total_requests <= RATE_LIMITS.requests_per_device

\* the entries of a sequence of clock values that lie in the last minute
InLastMinute(s) == {i \in 1..Len(s) : s[i] > now - MinuteTicks}

\* C29: the window counts agree with the request counter.  For every
\* fingerprint, at every time, requests_this_minute holds as many entries
\* of the last minute as track_usage calls were made for the fingerprint
\* in the last minute, also when two calls carry the same timestamp.
C29_WindowMatchesCalls ==
    \A d \in Devices :
        Cardinality(InLastMinute(usage[d].requests_this_minute))
           = Cardinality(InLastMinute(trackLog[d]))

\* ------------------------------------------ the two device_authenticators
\* C30: the two deployed sources of device_authenticator agree on status
\* codes.  For every request that is no OPTIONS request, with the same SDK
\* state and the same signing outcome, temp-functions/device-auth and
\* temp-function-update/device-auth answer with the same status, one of
\* 405, 400, 500 and 200, and on 200 with the same firebase_custom_token;
\* the answer given is the one of the source the request was sent to.
C30_VariantsAgree ==
    auth_req # NoAuthReq =>
        LET a == device_authenticator(auth_req)
            b == device_authenticator_update(auth_req)
        IN  /\ auth_resp = IF auth_req.variant = "temp-functions" THEN a ELSE b
            /\ auth_req.method # "OPTIONS" =>
                  /\ a.status = b.status
                  /\ a.status \in {405, 400, 500, 200}
                  /\ a.token = b.token
                  /\ a.status = 200 <=> a.token # ""

\* C30 witness: the updated source has answered a well-formed POST with 200
\* and the token the first source gives for the same request.
C30_Witness ==
    /\ auth_req.variant = "temp-function-update"
    /\ auth_req.method = "POST"
    /\ auth_resp.status = 200
    /\ auth_resp.token = "jwt.cam-1"
    /\ device_authenticator(auth_req).token = "jwt.cam-1"

====
